---- MODULE Spec2Model ----
(***************************************************************************)
(* Note-enrichment pipeline: NotePipeline.process_note and its stages      *)
(* (pipeline.py), the batch processor (note_processor.py), the local       *)
(* storage client (file_system.py), the frontmatter codec and the content  *)
(* fingerprint (utils.py) and the reply parser (prompt_manager.py).        *)
(*                                                                         *)
(* Data representation                                                     *)
(*   file name   a sequence of characters, <<"_", "a">> is "_a"            *)
(*   text        the sequence of its lines (the text split at "\n"); the   *)
(*               empty text is one empty line; a text that ends with a     *)
(*               line break has an empty last line                         *)
(*   line        a record: the delimiter line "---", a "key: value" entry  *)
(*               of a YAML block (holding the value YAML loads from it),   *)
(*               or a line of plain text named by a short string           *)
(*   bytes       [ok, text]: ok says the bytes are valid UTF-8 and text is *)
(*               what they decode to                                       *)
(*   dict        a Python dict, insertion ordered: a sequence of [k, v]    *)
(*               with distinct keys                                        *)
(*   value       a record tagged with its Python type in field ty          *)
(***************************************************************************)
EXTENDS Integers, Sequences, FiniteSets, TLC

(***************************************************************************)
(* Bounds of the model.                                                    *)
(***************************************************************************)
MaxCalls == 2        \* calls of process_note / process_notes in one behaviour

(***************************************************************************)
(* Program constants.                                                      *)
(***************************************************************************)
BYTES_PER_KB == 1024
max_note_size_kb == 1
max_notes_per_run == 1
BigLineBytes == 2000

Runs == {"r1", "r2"}
SeqRuns == {"r1"}

(***************************************************************************)
(* Lines, texts and bytes.                                                 *)
(***************************************************************************)
Delim == [t |-> "delim"]
KV(k, v) == [t |-> "kv", k |-> k, v |-> v]
TextLine(s) == [t |-> "text", s |-> s]
\* the line a\nb: a backslash and the letter n between a and b
EscapedLine(a, b) == [t |-> "text", s |-> "\\n", a |-> a, b |-> b]
EmptyText == <<TextLine("")>>

Bool(b) == [ty |-> "bool", b |-> b]
Str(s) == [ty |-> "str", s |-> s]
List(items) == [ty |-> "list", items |-> items]

Min(S) == CHOOSE x \in S : \A y \in S : x <= y

\* the number of bytes of one line, without its line break
LineBytes(l) ==
    CASE l.t = "delim" -> 3
      [] l.t = "kv" -> 16
      [] l.t = "text" /\ l.s = "" -> 0
      [] l.t = "text" /\ l.s = "big" -> BigLineBytes
      [] l.t = "text" /\ l.s = "exact" -> max_note_size_kb * BYTES_PER_KB
      [] l.t = "text" /\ l.s = "over" -> max_note_size_kb * BYTES_PER_KB + 1
      [] OTHER -> 2

RECURSIVE SumBytes(_)
SumBytes(text) ==
    IF text = <<>> THEN 0 ELSE LineBytes(Head(text)) + SumBytes(Tail(text))

\* len(note.content): the lines and the line breaks between them
ByteLen(bytes) == SumBytes(bytes.text) + (Len(bytes.text) - 1)

Encode(text) == [ok |-> TRUE, text |-> text]
InvalidUtf8 == [ok |-> FALSE, text |-> <<TextLine("\\xff")>>]

\* s + t for a text s that ends with a line break
Concat(s, t) == SubSeq(s, 1, Len(s) - 1) \o t

(***************************************************************************)
(* utils.calculate_file_hash: SHA-256 taken as collision free, the digest  *)
(* string stands for the text it was computed from.                        *)
(***************************************************************************)
calculate_file_hash(text) == [ty |-> "digest", of |-> text]

(***************************************************************************)
(* Python dicts.                                                           *)
(***************************************************************************)
DictKeys(d) == {d[i].k : i \in 1..Len(d)}
DictHas(d, k) == k \in DictKeys(d)
DictIndex(d, k) == CHOOSE i \in 1..Len(d) : d[i].k = k
DictGet(d, k, default) == IF DictHas(d, k) THEN d[DictIndex(d, k)].v ELSE default
DictSet(d, k, v) ==
    IF DictHas(d, k)
    THEN [d EXCEPT ![DictIndex(d, k)] = [k |-> k, v |-> v]]
    ELSE Append(d, [k |-> k, v |-> v])

RECURSIVE DictUpdate(_, _)
DictUpdate(d, e) ==
    IF e = <<>> THEN d
    ELSE DictUpdate(DictSet(d, Head(e).k, Head(e).v), Tail(e))

DictSetDefault(d, k, v) == IF DictHas(d, k) THEN d ELSE Append(d, [k |-> k, v |-> v])

(***************************************************************************)
(* YAML, as far as the codec uses it.  The value of an entry line is either *)
(* given directly (the value the line loads as) or is a scalar token        *)
(* [style, v] as yaml.dump emits it: a plain token is resolved by its text  *)
(* when loaded, a quoted token loads as the string it holds, a block token  *)
(* is a sequence.                                                           *)
(***************************************************************************)
Plain(v) == [style |-> "plain", v |-> v]
Quoted(v) == [style |-> "quoted", v |-> v]
Block(v) == [style |-> "block", v |-> v]
PyInt(n) == [ty |-> "int", n |-> n]
None == [ty |-> "none"]

TrueWords == {"yes", "Yes", "YES", "true", "True", "TRUE", "on", "On", "ON"}
FalseWords == {"no", "No", "NO", "false", "False", "FALSE", "off", "Off", "OFF"}
NullWords == {"", "~", "null", "Null", "NULL"}
\* a text the timestamp pattern matches and datetime.date rejects
ImpossibleDate == "2024-02-30"

\* a plain scalar is read without the blanks around it
Trim(s) == IF s = "true " THEN "true" ELSE s

\* the implicit resolver and the constructor of the tag it finds, on the
\* text of a plain scalar: [kind, v], kind "ValueError" when the constructor
\* raises
Resolve(x) ==
    IF x.ty # "str" \/ DOMAIN x # {"ty", "s"} THEN [kind |-> "ok", v |-> x]
    ELSE LET w == Trim(x.s) IN
         CASE w \in TrueWords -> [kind |-> "ok", v |-> Bool(TRUE)]
           [] w \in FalseWords -> [kind |-> "ok", v |-> Bool(FALSE)]
           [] w \in NullWords -> [kind |-> "ok", v |-> None]
           [] w = "1" -> [kind |-> "ok", v |-> PyInt(1)]
           [] w = ImpossibleDate -> [kind |-> "ValueError", v |-> None]
           [] OTHER -> [kind |-> "ok", v |-> Str(w)]

\* the value one entry loads as
Construct(tok) ==
    IF "style" \notin DOMAIN tok THEN [kind |-> "ok", v |-> tok]
    ELSE IF tok.style = "plain" THEN Resolve(tok.v)
    ELSE [kind |-> "ok", v |-> tok.v]

\* a representer that writes every string plain
RepresentPlain(v) ==
    CASE v.ty = "bool" -> Plain(Str(IF v.b THEN "true" ELSE "false"))
      [] v.ty = "int" -> Plain(Str("1"))
      [] v.ty = "none" -> Plain(Str("null"))
      [] v.ty = "list" -> Block(v)
      [] OTHER -> Plain(v)

\* the scalar yaml.dump writes for a value: a string is written plain only
\* if a plain scalar of that text loads as the same string
Represent(v) ==
    CASE v.ty = "bool" -> Plain(Str(IF v.b THEN "true" ELSE "false"))
      [] v.ty = "int" -> Plain(Str("1"))
      [] v.ty = "none" -> Plain(Str("null"))
      [] v.ty = "list" -> Block(v)
      [] OTHER -> IF Resolve(v) = [kind |-> "ok", v |-> v] THEN Plain(v) ELSE Quoted(v)

(***************************************************************************)
(* yaml.safe_load of the lines between the delimiters: a leading "---" is  *)
(* the document start marker, blank lines count for nothing; no lines load *)
(* as None; entries load as a                                              *)
(* mapping; plain lines load as one scalar; entries mixed with plain lines *)
(* are a YAMLError; an entry whose constructor raises lets that exception  *)
(* (no YAMLError) through.                                                 *)
(***************************************************************************)
NotBlank(l) == l # TextLine("")

YamlBody(lines) ==
    SelectSeq(IF lines # <<>> /\ Head(lines) = Delim THEN Tail(lines) ELSE lines, NotBlank)

RECURSIVE EntriesToDict(_)
EntriesToDict(lines) ==
    IF lines = <<>> THEN <<>>
    ELSE LET l == lines[Len(lines)]
             d == EntriesToDict(SubSeq(lines, 1, Len(lines) - 1))
         IN DictSet(d, l.k, Construct(l.v).v)

safe_load(lines) ==
    LET b == YamlBody(lines) IN
    IF b = <<>> THEN [kind |-> "none"]
    ELSE IF b = <<TextLine("{}")>> THEN [kind |-> "dict", d |-> <<>>]
    ELSE IF \A i \in 1..Len(b) : b[i].t = "kv"
         THEN IF \E i \in 1..Len(b) : Construct(b[i].v).kind = "ValueError"
              THEN [kind |-> "ValueError"]
              ELSE [kind |-> "dict", d |-> EntriesToDict(b)]
    ELSE IF \A i \in 1..Len(b) : b[i].t = "text"
         THEN [kind |-> "scalar"]
    ELSE [kind |-> "error"]

RECURSIVE DumpEntries(_)
DumpEntries(d) ==
    IF d = <<>> THEN <<>>
    ELSE <<KV(Head(d).k, Represent(Head(d).v))>> \o DumpEntries(Tail(d))

\* yaml.dump(d, default_flow_style=False): one entry per key, "{}" for no key
yaml_dump(d) == IF d = <<>> THEN <<TextLine("{}")>> ELSE DumpEntries(d)

(***************************************************************************)
(* utils.parse_frontmatter: [raised, body, isdict, d].  The frontmatter is *)
(* [isdict, d]: `yaml.safe_load(text) or {}` is a dict unless the block    *)
(* loads as a (truthy) scalar.  raised: an exception other than YAMLError  *)
(* left the function.                                                      *)
(***************************************************************************)
StartsWithDelim(text) == Len(text) >= 2 /\ text[1] = Delim

\* content.find('\n---\n', 4): the first "---" line from the third line on
\* that is followed by a line break; 0 when there is none
ClosingIndex(text) ==
    LET S == {i \in 3..(Len(text) - 1) : text[i] = Delim}
    IN IF S = {} THEN 0 ELSE Min(S)

NoFrontmatter(text) == [raised |-> FALSE, body |-> text, isdict |-> TRUE, d |-> <<>>]

parse_frontmatter(text) ==
    IF ~StartsWithDelim(text) THEN NoFrontmatter(text)
    ELSE LET e == ClosingIndex(text) IN
         IF e = 0 THEN NoFrontmatter(text)
         ELSE LET y == safe_load(SubSeq(text, 2, e - 1))
                  body == SubSeq(text, e + 1, Len(text))
              IN CASE y.kind = "error" -> NoFrontmatter(text)
                   [] y.kind = "ValueError" ->
                        [raised |-> TRUE, body |-> text, isdict |-> FALSE, d |-> <<>>]
                   [] y.kind = "none" ->
                        [raised |-> FALSE, body |-> body, isdict |-> TRUE, d |-> <<>>]
                   [] y.kind = "dict" ->
                        [raised |-> FALSE, body |-> body, isdict |-> TRUE, d |-> y.d]
                   [] OTHER ->
                        [raised |-> FALSE, body |-> body, isdict |-> FALSE, d |-> <<>>]

(***************************************************************************)
(* utils.generate_frontmatter.                                             *)
(***************************************************************************)
ordered_keys == <<"processed_datetime", "note_hash", "summary", "tags",
                  "para_suggestion", "confidence_score", "processing_version",
                  "original_length">>

RECURSIVE PickOrdered(_, _)
PickOrdered(keys, d) ==
    IF keys = <<>> THEN <<>>
    ELSE (IF DictHas(d, Head(keys))
          THEN <<[k |-> Head(keys), v |-> DictGet(d, Head(keys), Bool(FALSE))]>>
          ELSE <<>>) \o PickOrdered(Tail(keys), d)

\* every key of the mapping appended, the ordered ones a second time
AddExtraAll(o, d) == o \o d

RECURSIVE AddExtra(_, _)
AddExtra(o, d) ==
    IF d = <<>> THEN o
    ELSE AddExtra(IF DictHas(o, Head(d).k) THEN o ELSE Append(o, Head(d)), Tail(d))

generate_frontmatter(metadata) ==
    LET ordered_metadata == AddExtra(PickOrdered(ordered_keys, metadata), metadata)
    IN <<Delim>> \o yaml_dump(ordered_metadata) \o <<Delim, TextLine("")>>

(***************************************************************************)
(* File names and paths.  One folder is modelled, the inbox folder.        *)
(***************************************************************************)
Inbox == "0-QuickNotes"
BaseNames == {<<"a">>, <<"b">>}
PathOf(parent, name) == <<parent, name>>
Parent(path) == path[1]
NameOf(path) == path[2]

\* name.startswith('_')
StartsWithLock(name) == Len(name) > 0 /\ name[1] = "_"
\* f"_{note.name}"
LockedName(name) == <<"_">> \o name
FinalNameKeepsLock(name) == name

\* note.name[1:] if note.name.startswith('_') else note.name
FinalName(name) == IF StartsWithLock(name) THEN Tail(name) ELSE name

(***************************************************************************)
(* pipeline.Note                                                           *)
(***************************************************************************)
PyStr(text) == [py |-> "str", text |-> text]
PyOther == [py |-> "other"]

NewNote(file_path, name, content) ==
    [file_path |-> file_path,
     name |-> name,
     content |-> content,
     relative_path |-> name,
     text_content |-> EmptyText,
     content_without_frontmatter |-> EmptyText,
     existing_frontmatter |-> [isdict |-> TRUE, d |-> <<>>],
     enhanced_content |-> PyStr(EmptyText),
     metadata |-> <<>>]

(***************************************************************************)
(* NotePipeline._filter.  [raised, verdict, note]: raised when the stage   *)
(* raises (frontmatter.get on a frontmatter that is no dict), verdict its  *)
(* return value, note the Note as the stage leaves it.                     *)
(***************************************************************************)
Lower(s) == IF s \in {"true", "True", "TRUE", "tRuE"} THEN "true" ELSE s

\* any value Python takes as true skips
IsSkipValueTruthy(v) ==
    \/ v.ty = "bool" /\ v.b
    \/ v.ty = "str" /\ v.s # ""
    \/ v.ty = "int"

\* ignore_parse is True or (isinstance(ignore_parse, str) and
\* ignore_parse.lower() == 'true')
IsSkipValue(v) ==
    \/ v.ty = "bool" /\ v.b
    \/ v.ty = "str" /\ Lower(v.s) = "true"

\* a note_hash of any value counts as unchanged
HashUnchangedIfPresent(frontmatter, content_without_fm) == DictHas(frontmatter, "note_hash")

\* 'note_hash' in frontmatter and current_hash == frontmatter.get('note_hash')
HashUnchanged(frontmatter, content_without_fm) ==
    /\ DictHas(frontmatter, "note_hash")
    /\ calculate_file_hash(content_without_fm) = DictGet(frontmatter, "note_hash", Bool(FALSE))

\* the parsed fields stored only on a note that passes
FilterDecodedStoresOnPass(n) ==
    LET text == n.content.text
        p == parse_frontmatter(text)
        n0 == [n EXCEPT !.text_content = text]
        n1 == [n0 EXCEPT !.existing_frontmatter = [isdict |-> p.isdict, d |-> p.d],
                         !.content_without_frontmatter = p.body]
    IN IF p.raised
       THEN [raised |-> TRUE, verdict |-> FALSE, note |-> n0]
       ELSE IF ~p.isdict
       THEN [raised |-> TRUE, verdict |-> FALSE, note |-> n1]
       ELSE IF IsSkipValue(DictGet(p.d, "ignoreParse", Bool(FALSE)))
       THEN [raised |-> FALSE, verdict |-> FALSE, note |-> n0]
       ELSE IF HashUnchanged(p.d, p.body)
       THEN [raised |-> FALSE, verdict |-> FALSE, note |-> n0]
       ELSE [raised |-> FALSE, verdict |-> TRUE, note |-> n1]

\* the existing frontmatter kept as the start of the note's metadata
FilterDecodedKeepsMetadata(n) ==
    LET text == n.content.text
        p == parse_frontmatter(text)
        n1 == [n EXCEPT !.text_content = text,
                        !.existing_frontmatter = [isdict |-> p.isdict, d |-> p.d],
                        !.content_without_frontmatter = p.body,
                        !.metadata = p.d]
    IN IF p.raised
       THEN [raised |-> TRUE, verdict |-> FALSE, note |-> [n EXCEPT !.text_content = text]]
       ELSE IF ~p.isdict
       THEN [raised |-> TRUE, verdict |-> FALSE, note |-> n1]
       ELSE IF IsSkipValue(DictGet(p.d, "ignoreParse", Bool(FALSE)))
       THEN [raised |-> FALSE, verdict |-> FALSE, note |-> n1]
       ELSE IF HashUnchanged(p.d, p.body)
       THEN [raised |-> FALSE, verdict |-> FALSE, note |-> n1]
       ELSE [raised |-> FALSE, verdict |-> TRUE, note |-> n1]

\* the try block after the decode
FilterDecoded(n) ==
    LET text == n.content.text
        p == parse_frontmatter(text)
        n1 == [n EXCEPT !.text_content = text,
                        !.existing_frontmatter = [isdict |-> p.isdict, d |-> p.d],
                        !.content_without_frontmatter = p.body]
    IN IF p.raised
       THEN [raised |-> TRUE, verdict |-> FALSE, note |-> [n EXCEPT !.text_content = text]]
       ELSE IF ~p.isdict
       THEN [raised |-> TRUE, verdict |-> FALSE, note |-> n1]
       ELSE IF IsSkipValue(DictGet(p.d, "ignoreParse", Bool(FALSE)))
       THEN [raised |-> FALSE, verdict |-> FALSE, note |-> n1]
       ELSE IF HashUnchanged(p.d, p.body)
       THEN [raised |-> FALSE, verdict |-> FALSE, note |-> n1]
       ELSE [raised |-> FALSE, verdict |-> TRUE, note |-> n1]

\* the UnicodeDecodeError not caught by the stage
_filter_decode_error_escapes(n) ==
    IF StartsWithLock(n.name)
    THEN [raised |-> FALSE, verdict |-> FALSE, note |-> n]
    ELSE IF ~n.content.ok
    THEN [raised |-> TRUE, verdict |-> FALSE, note |-> n]
    ELSE FilterDecoded(n)

_filter(n) ==
    IF StartsWithLock(n.name)
    THEN [raised |-> FALSE, verdict |-> FALSE, note |-> n]
    ELSE IF ~n.content.ok
    THEN [raised |-> FALSE, verdict |-> FALSE, note |-> n]
    ELSE FilterDecoded(n)

(***************************************************************************)
(* NotePipeline._validate                                                  *)
(***************************************************************************)
\* a note of exactly the maximum size rejected
_validate_inclusive(n) ==
    LET max_size == max_note_size_kb * BYTES_PER_KB
    IN ~(ByteLen(n.content) >= max_size)

_validate(n) ==
    LET max_size == max_note_size_kb * BYTES_PER_KB
    IN ~(ByteLen(n.content) > max_size)

(***************************************************************************)
(* FileSystemClient: storage is a function from the paths of the files     *)
(* that exist to [content, mtime].  Every operation returns                *)
(* [raised, files]; io is the outcome of the underlying system call.       *)
(***************************************************************************)
Exists(fs, path) == path \in DOMAIN fs
WriteAt(fs, path, file) == [x \in DOMAIN fs \cup {path} |-> IF x = path THEN file ELSE fs[x]]
Unlink(fs, path) == [x \in DOMAIN fs \ {path} |-> fs[x]]

\* the file copied to new_path and left at old_path
rename_file_copies(fs, file_path, new_name, io) ==
    LET old_path == file_path
        new_path == PathOf(Parent(old_path), new_name)
    IN IF io # "ok" \/ ~Exists(fs, old_path)
       THEN [raised |-> TRUE, files |-> fs]
       ELSE [raised |-> FALSE,
             files |-> IF old_path = new_path THEN fs
                       ELSE WriteAt(fs, new_path, fs[old_path])]

\* old_path.rename(new_path): replaces a file at new_path, keeps the mtime
rename_file(fs, file_path, new_name, io) ==
    LET old_path == file_path
        new_path == PathOf(Parent(old_path), new_name)
    IN IF io # "ok" \/ ~Exists(fs, old_path)
       THEN [raised |-> TRUE, files |-> fs]
       ELSE [raised |-> FALSE,
             files |-> IF old_path = new_path THEN fs
                       ELSE WriteAt(Unlink(fs, old_path), new_path, fs[old_path])]

\* new_path.write_bytes(content), then old_path.unlink() if the name changed
update_file(fs, file_path, new_name, content, now, io) ==
    LET old_path == file_path
        new_path == PathOf(Parent(old_path), new_name)
        written == WriteAt(fs, new_path, [content |-> content, mtime |-> now])
    IN CASE io = "write_fails" -> [raised |-> TRUE, files |-> fs]
         [] io = "unlink_fails" /\ old_path # new_path /\ Exists(written, old_path) ->
                [raised |-> TRUE, files |-> written]
         [] OTHER ->
                [raised |-> FALSE,
                 files |-> IF old_path # new_path /\ Exists(written, old_path)
                           THEN Unlink(written, old_path) ELSE written]

\* path.read_bytes()
read_file(fs, file_path, io) ==
    IF io # "ok" \/ ~Exists(fs, file_path)
    THEN [raised |-> TRUE, content |-> InvalidUtf8]
    ELSE [raised |-> FALSE, content |-> fs[file_path].content]

(***************************************************************************)
(* NotePipeline._mark_as_processing: [raised, files, note, call]           *)
(***************************************************************************)
\* the Note left as it was after the rename
_mark_as_processing_keeps_path(n, fs, io) ==
    LET new_name == LockedName(n.name)
        r == rename_file(fs, n.file_path, new_name, io)
        call == [op |-> "rename_file", file_path |-> n.file_path,
                 new_name |-> new_name, raised |-> r.raised]
    IN [raised |-> r.raised, files |-> r.files, note |-> n, call |-> call]

_mark_as_processing(n, fs, io) ==
    LET new_name == LockedName(n.name)
        r == rename_file(fs, n.file_path, new_name, io)
        call == [op |-> "rename_file", file_path |-> n.file_path,
                 new_name |-> new_name, raised |-> r.raised]
    IN IF r.raised
       THEN [raised |-> TRUE, files |-> r.files, note |-> n, call |-> call]
       ELSE [raised |-> FALSE, files |-> r.files, call |-> call,
             note |-> [n EXCEPT !.file_path = PathOf(Parent(n.file_path), new_name),
                                !.name = new_name]]

(***************************************************************************)
(* PromptManager.parse_claude_response.  A reply is a text.  A line that   *)
(* is a JSON document holds the value json.loads gives for it: a mapping   *)
(* [kind, keys, content, metadata] with keys the keys present among        *)
(* content and metadata, or another JSON value; any other text is not      *)
(* JSON.  content is a PyStr or another JSON value; metadata is [py, d]    *)
(* with py the type of the JSON value (dict; none: null; list: a list of   *)
(* scalars).  A tag is [marks, name]: marks the number of leading '#'      *)
(* characters, -1 for a tag that is no string.  The result is              *)
(* [raised, content, metadata].                                            *)
(***************************************************************************)
JsonLine(v) == [t |-> "json", v |-> v]
JsonDict(keys, content, metadata) ==
    [kind |-> "dict", keys |-> keys, content |-> content, metadata |-> metadata]
JsonList == [kind |-> "list"]
\* the lines that open and close a Markdown code block
FenceJson == TextLine("fence json")
Fence == TextLine("fence")

\* response.strip(): without the blank lines around the text
RECURSIVE Strip(_)
Strip(text) ==
    IF Len(text) > 1 /\ Head(text) = TextLine("") THEN Strip(Tail(text))
    ELSE IF Len(text) > 1 /\ text[Len(text)] = TextLine("")
    THEN Strip(SubSeq(text, 1, Len(text) - 1))
    ELSE text

\* the text without the fence lines around it
StripFence(text) ==
    IF /\ Head(text) \in {FenceJson, Fence}
       /\ text[Len(text)] = Fence
    THEN (IF Len(text) <= 2 THEN EmptyText ELSE SubSeq(text, 2, Len(text) - 1))
    ELSE text

\* json.loads: [err] for a JSONDecodeError, else the value
json_loads(text) ==
    IF Len(text) = 1 /\ text[1].t = "json"
    THEN [err |-> FALSE, v |-> text[1].v]
    ELSE [err |-> TRUE, v |-> JsonList]

Tag(marks, name) == [marks |-> marks, name |-> name]
NotAString == Tag(-1, "42")

\* a '#' put before every tag
NormalizeTagAlways(tag) == [tag EXCEPT !.marks = tag.marks + 1]

\* tag if tag.startswith('#') else f'#{tag}'
NormalizeTag(tag) == IF tag.marks >= 1 THEN tag ELSE [tag EXCEPT !.marks = 1]

NormalizeTags(d) ==
    [i \in 1..Len(d) |->
        IF d[i].k = "tags" /\ d[i].v.ty = "list"
        THEN [k |-> "tags",
              v |-> List([j \in 1..Len(d[i].v.items) |-> NormalizeTag(d[i].v.items[j])])]
        ELSE d[i]]

\* tag.startswith raises for a tag that is no string
TagsRaise(d) ==
    \E i \in 1..Len(d) :
        /\ d[i].k = "tags" /\ d[i].v.ty = "list"
        /\ \E j \in 1..Len(d[i].v.items) : d[i].v.items[j].marks < 0

\* content.replace('\\n', '\n')
RECURSIVE Unescape(_)
Unescape(text) ==
    IF text = <<>> THEN <<>>
    ELSE (IF Head(text).t = "text" /\ Head(text).s = "\\n"
          THEN <<TextLine(Head(text).a), TextLine(Head(text).b)>>
          ELSE <<Head(text)>>) \o Unescape(Tail(text))

UnescapeContent(content) ==
    IF content.py = "str" THEN PyStr(Unescape(content.text)) ELSE content

FallbackMetadata ==
    <<[k |-> "summary", v |-> Str("Failed to parse AI response")],
      [k |-> "tags", v |-> List(<<Tag(1, "processing-error")>>)]>>

\* the fallback made of the reply after its cleaning
FallbackOfCleaned(response) ==
    [raised |-> FALSE, content |-> PyStr(StripFence(Strip(response.raw))),
     metadata |-> [py |-> "dict", d |-> FallbackMetadata]]

\* the except clause: the reply as it came, with the fixed metadata
Fallback(response) ==
    [raised |-> FALSE, content |-> PyStr(response.raw),
     metadata |-> [py |-> "dict", d |-> FallbackMetadata]]

parse_claude_response(response) ==
    LET response_clean == StripFence(Strip(response.raw))
        loaded == json_loads(response_clean)
        parsed == loaded.v
    IN IF loaded.err THEN Fallback(response)
       ELSE IF parsed.kind # "dict" THEN Fallback(response)
       ELSE IF "content" \notin parsed.keys THEN Fallback(response)
       ELSE IF "metadata" \notin parsed.keys THEN Fallback(response)
       ELSE IF parsed.metadata.py \notin {"dict", "list"}
       THEN [raised |-> TRUE, content |-> parsed.content, metadata |-> parsed.metadata]
       ELSE IF parsed.metadata.py = "dict" /\ TagsRaise(parsed.metadata.d)
       THEN [raised |-> TRUE, content |-> parsed.content, metadata |-> parsed.metadata]
       ELSE [raised |-> FALSE, content |-> UnescapeContent(parsed.content),
             metadata |-> IF parsed.metadata.py = "dict"
                          THEN [py |-> "dict", d |-> NormalizeTags(parsed.metadata.d)]
                          ELSE parsed.metadata]

(***************************************************************************)
(* NotePipeline._enhance_with_claude.  llm is the adapter's behaviour:     *)
(* [raises] or a reply.  [ok, note, calls]: ok the return value, calls the *)
(* send_message calls made.                                                *)
(***************************************************************************)
format_note_prompt(note_content) == [system |-> "system", user |-> note_content]

\* a failed send_message tried a second time
_enhance_with_claude_retry(n, prompts_ok, llm) ==
    IF ~prompts_ok THEN [ok |-> FALSE, note |-> n, calls |-> <<>>]
    ELSE LET prompt == format_note_prompt(n.content_without_frontmatter)
             call == [op |-> "send_message", prompt |-> prompt, response |-> llm.raw,
                      raised |-> llm.raises]
         IN IF llm.raises THEN [ok |-> FALSE, note |-> n, calls |-> <<call, call>>]
            ELSE LET enhanced_data == parse_claude_response(llm)
                 IN IF enhanced_data.raised
                    THEN [ok |-> FALSE, note |-> n, calls |-> <<call>>]
                    ELSE LET n1 == [n EXCEPT !.enhanced_content = enhanced_data.content]
                         IN IF enhanced_data.metadata.py # "dict"
                            THEN [ok |-> FALSE, note |-> n1, calls |-> <<call>>]
                            ELSE [ok |-> TRUE, calls |-> <<call>>,
                                  note |-> [n1 EXCEPT !.metadata =
                                      DictUpdate(n.metadata, enhanced_data.metadata.d)]]

_enhance_with_claude(n, prompts_fine, llm) ==
    IF ~prompts_fine THEN [ok |-> FALSE, note |-> n, calls |-> <<>>]
    ELSE LET prompt == format_note_prompt(n.content_without_frontmatter)
             call == [op |-> "send_message", prompt |-> prompt, response |-> llm.raw,
                      raised |-> llm.raises]
         IN IF llm.raises THEN [ok |-> FALSE, note |-> n, calls |-> <<call>>]
            ELSE LET enhanced_data == parse_claude_response(llm)
                 IN IF enhanced_data.raised
                    THEN [ok |-> FALSE, note |-> n, calls |-> <<call>>]
                    ELSE LET n1 == [n EXCEPT !.enhanced_content = enhanced_data.content]
                         IN IF enhanced_data.metadata.py # "dict"
                            THEN [ok |-> FALSE, note |-> n1, calls |-> <<call>>]
                            ELSE [ok |-> TRUE, calls |-> <<call>>,
                                  note |-> [n1 EXCEPT !.metadata =
                                      DictUpdate(n.metadata, enhanced_data.metadata.d)]]

(***************************************************************************)
(* NotePipeline._generate_metadata: [raised, note]; now is the UTC instant *)
(***************************************************************************)
Timestamp(now) == [ty |-> "str", s |-> "strftime", at |-> now]

\* the stamps put first, the reply's metadata merged over them
_generate_metadata_reply_wins(n, now) ==
    IF n.enhanced_content.py # "str" THEN [raised |-> TRUE, note |-> n]
    ELSE LET content_hash == calculate_file_hash(n.enhanced_content.text)
             m1 == DictUpdate(<<[k |-> "processed_datetime", v |-> Timestamp(now)],
                                [k |-> "note_hash", v |-> content_hash]>>, n.metadata)
             m2 == DictSetDefault(m1, "summary", Str("No summary generated"))
             m3 == DictSetDefault(m2, "tags", List(<<>>))
         IN [raised |-> FALSE, note |-> [n EXCEPT !.metadata = m3]]

\* the original body appended to the enhanced content before it is hashed
_generate_metadata_appends_original(n, now) ==
    IF n.enhanced_content.py # "str" THEN [raised |-> TRUE, note |-> n]
    ELSE LET combined == n.enhanced_content.text \o n.content_without_frontmatter
             content_hash == calculate_file_hash(combined)
             m1 == DictUpdate(n.metadata,
                      <<[k |-> "processed_datetime", v |-> Timestamp(now)],
                        [k |-> "note_hash", v |-> content_hash]>>)
             m2 == DictSetDefault(m1, "summary", Str("No summary generated"))
             m3 == DictSetDefault(m2, "tags", List(<<>>))
         IN [raised |-> FALSE,
             note |-> [n EXCEPT !.metadata = m3, !.enhanced_content = PyStr(combined)]]

\* summary and tags set to the defaults whatever the note's metadata hold
_generate_metadata_defaults_always(n, now) ==
    IF n.enhanced_content.py # "str" THEN [raised |-> TRUE, note |-> n]
    ELSE LET content_hash == calculate_file_hash(n.enhanced_content.text)
             m1 == DictUpdate(n.metadata,
                      <<[k |-> "processed_datetime", v |-> Timestamp(now)],
                        [k |-> "note_hash", v |-> content_hash]>>)
             m2 == DictSet(m1, "summary", Str("No summary generated"))
             m3 == DictSet(m2, "tags", List(<<>>))
         IN [raised |-> FALSE, note |-> [n EXCEPT !.metadata = m3]]

_generate_metadata(n, now) ==
    IF n.enhanced_content.py # "str" THEN [raised |-> TRUE, note |-> n]
    ELSE LET content_hash == calculate_file_hash(n.enhanced_content.text)
             m1 == DictUpdate(n.metadata,
                      <<[k |-> "processed_datetime", v |-> Timestamp(now)],
                        [k |-> "note_hash", v |-> content_hash]>>)
             m2 == DictSetDefault(m1, "summary", Str("No summary generated"))
             m3 == DictSetDefault(m2, "tags", List(<<>>))
         IN [raised |-> FALSE, note |-> [n EXCEPT !.metadata = m3]]

(***************************************************************************)
(* NotePipeline._save_to_file_system: [raised, files, call]                *)
(***************************************************************************)
FinalContent(n) == Concat(generate_frontmatter(n.metadata), n.enhanced_content.text)

_save_to_file_system(n, fs, now, io) ==
    LET final_content == FinalContent(n)
        final_name == FinalName(n.name)
        u == update_file(fs, n.file_path, final_name, Encode(final_content), now, io)
    IN [raised |-> u.raised, files |-> u.files,
        call |-> [op |-> "update_file", file_path |-> n.file_path,
                  new_name |-> final_name, content |-> Encode(final_content),
                  raised |-> u.raised]]

(***************************************************************************)
(* FileSystemClient.list_files over the inbox folder: [] when listing      *)
(* raises, else one entry per file, newest modification time first.        *)
(***************************************************************************)
RECURSIVE NewestFirst(_, _)
NewestFirst(fs, paths) ==
    IF paths = {} THEN <<>>
    ELSE LET p == CHOOSE x \in paths : \A y \in paths : fs[x].mtime >= fs[y].mtime
         IN <<[path |-> p, name |-> NameOf(p), modified_time |-> fs[p].mtime]>>
            \o NewestFirst(fs, paths \ {p})

list_files(fs, folder_name, io) ==
    IF io # "ok" THEN <<>>
    ELSE NewestFirst(fs, {p \in DOMAIN fs : Parent(p) = folder_name})

AllListedFiles(listed) == listed

\* [f for f in files if not f['name'].startswith('_')]
RECURSIVE EligibleFiles(_)
EligibleFiles(listed) ==
    IF listed = <<>> THEN <<>>
    ELSE (IF StartsWithLock(Head(listed).name) THEN <<>> ELSE <<Head(listed)>>)
         \o EligibleFiles(Tail(listed))

\* eligible_files[:self.config.max_notes_per_run]
FilesToProcess(listed, limit) ==
    LET eligible_files == EligibleFiles(listed)
    IN SubSeq(eligible_files, 1,
              IF Len(eligible_files) < limit THEN Len(eligible_files) ELSE limit)

(***************************************************************************)
(* The inputs of the model.                                                *)
(***************************************************************************)
Body1 == <<TextLine("t1")>>
Body2 == <<TextLine("t2"), TextLine("")>>

InitContents ==
    { Encode(Body1),
      Encode(<<Delim, KV("ignoreParse", Bool(TRUE)), Delim>> \o Body1),
      Encode(<<Delim, KV("note_hash", calculate_file_hash(Body1)), Delim>> \o Body1),
      Encode(<<Delim, KV("note_hash", calculate_file_hash(Body2)),
               KV("ignoreParse", Str("yes")), KV("title", Str("mine")), Delim>> \o Body1),
      Encode(<<Delim, TextLine("t1"), Delim>> \o Body2),
      Encode(<<TextLine("big")>>),
      InvalidUtf8 }

\* a reply: well formed (wf), one JSON mapping with content and metadata;
\* else the text raw
Reply(wf, raw, content, metadata) ==
    [raises |-> FALSE,
     raw |-> IF wf THEN <<JsonLine(JsonDict({"content", "metadata"}, content, metadata))>>
             ELSE raw]

LLMRaises == [raises |-> TRUE, raw |-> EmptyText]

Enhanced1 == <<EscapedLine("e1", "e3")>>
Enhanced2 == <<Delim, TextLine("e2"), Delim, TextLine("")>>

LLMBehaviours ==
    { LLMRaises,
      Reply(FALSE, <<TextLine("sorry")>>, PyOther, [py |-> "none", d |-> <<>>]),
      Reply(TRUE, EmptyText, PyStr(Enhanced1),
            [py |-> "dict",
             d |-> <<[k |-> "summary", v |-> Str("s")],
                     [k |-> "tags", v |-> List(<<Tag(0, "x")>>)]>>]),
      Reply(TRUE, EmptyText, PyStr(Enhanced2),
            [py |-> "dict",
             d |-> <<[k |-> "note_hash", v |-> calculate_file_hash(Body1)],
                     [k |-> "processed_datetime", v |-> Str("yesterday")],
                     [k |-> "ignoreParse", v |-> Bool(FALSE)]>>]),
      Reply(TRUE, EmptyText, PyStr(Enhanced1),
            [py |-> "dict", d |-> <<[k |-> "summary", v |-> None]>>]),
      Reply(TRUE, EmptyText, PyStr(EmptyText), [py |-> "dict", d |-> <<>>]),
      Reply(TRUE, EmptyText, PyOther, [py |-> "dict", d |-> <<>>]),
      Reply(TRUE, EmptyText, PyStr(Enhanced1), [py |-> "none", d |-> <<>>]),
      \* metadata a list of scalars such as [1]: it has a copy(), and
      \* dict.update raises on it
      Reply(TRUE, EmptyText, PyStr(Enhanced1), [py |-> "list", d |-> <<>>]) }

RenameOutcomes == {"ok", "fails"}
UpdateOutcomes == {"ok", "write_fails", "unlink_fails"}
ReadOutcomes == {"ok", "fails"}
ListOutcomes == {"ok", "fails"}

InitPaths == {PathOf(Inbox, <<"a">>), PathOf(Inbox, <<"b">>), PathOf(Inbox, <<"_", "a">>)}
CallPaths == InitPaths

InitContentsOf(path) ==
    CASE NameOf(path) = <<"a">> -> InitContents
      [] NameOf(path) = <<"b">> -> {Encode(Body1)}
      [] OTHER -> {Encode(Body2)}

\* the storage states the program may find: any subset of the paths, any
\* content, pairwise different modification times
InitFiles ==
    { fs \in UNION { [P -> [content : InitContents \cup {Encode(Body2)}, mtime : 1..3]] : P \in SUBSET InitPaths } :
        /\ \A p \in DOMAIN fs : fs[p].content \in InitContentsOf(p)
        /\ \A p, q \in DOMAIN fs : p # q => fs[p].mtime # fs[q].mtime
        /\ \A p \in DOMAIN fs : fs[p].mtime <= Cardinality(DOMAIN fs) }

(***************************************************************************)
(* State.                                                                  *)
(***************************************************************************)
VARIABLES
    files,            \* storage: path -> [content, mtime]
    clock,            \* the time: stamps written files and processed_datetime
    prompts_fine,     \* PromptManager.prompts has a usable 'user' template
    config,           \* Config: [max_notes_per_run]
    ncalls,           \* calls made so far (bounded by MaxCalls)
    note,             \* per run: the Note being processed
    ppc,              \* per run: position in process_note
    ret,              \* per run: the values of the return statement executed
    exitline,         \* per run: the line of the return statement executed
    calls,            \* per run: the collaborator calls of the current process_note
    trail,            \* per run: the stages the current process_note has run
    entry,            \* per run: the Note and the storage when process_note was called
    persisted,        \* path -> the bytes the last successful Persist wrote there
    bpc,              \* per run: position in process_notes
    todo,             \* per run: files_to_process not yet handled
    handled,          \* per run: the entries read by this batch run, in order
    processed_count,  \* per run: process_notes' counter
    batch_ret,        \* per run: what process_notes returned
    listed,           \* per run: what list_files returned, and storage then
    outcomes,         \* per run: how each entry handled so far ended
    probe             \* a pure function applied to an input: [fn, arg, out]

vars == <<files, clock, prompts_fine, config, ncalls, note, ppc, ret, exitline, calls, trail,
          entry, persisted, bpc, todo, handled, processed_count, batch_ret, listed,
          outcomes, probe>>

pipeline_vars == <<note, ppc, ret, exitline, calls, trail, entry>>
batch_vars == <<bpc, todo, handled, processed_count, batch_ret, listed, outcomes>>

NoNote == NewNote(PathOf(Inbox, <<>>), <<>>, Encode(EmptyText))
NoEntry == [name |-> <<>>, file_path |-> PathOf(Inbox, <<>>), content |-> Encode(EmptyText),
            files |-> <<>>, was_persisted |-> FALSE]

NoListing == [entries |-> <<>>, storage |-> <<>>]
NoProbe == [fn |-> "none"]

\* nothing called yet
NoCallYet ==
    /\ note = [r \in Runs |-> NoNote]
    /\ ppc = [r \in Runs |-> "idle"]
    /\ ret = [r \in Runs |-> <<>>]
    /\ exitline = [r \in Runs |-> 0]
    /\ calls = [r \in Runs |-> <<>>]
    /\ trail = [r \in Runs |-> <<>>]
    /\ entry = [r \in Runs |-> NoEntry]
    /\ persisted = <<>>
    /\ bpc = [r \in Runs |-> "idle"]
    /\ todo = [r \in Runs |-> <<>>]
    /\ handled = [r \in Runs |-> <<>>]
    /\ processed_count = [r \in Runs |-> 0]
    /\ batch_ret = [r \in Runs |-> -1]
    /\ listed = [r \in Runs |-> NoListing]
    /\ outcomes = [r \in Runs |-> <<>>]

Init ==
    /\ files \in InitFiles
    /\ clock = 4
    /\ prompts_fine \in BOOLEAN
    /\ config = [max_notes_per_run |-> max_notes_per_run]
    /\ ncalls = 0
    /\ probe = NoProbe
    /\ NoCallYet

(***************************************************************************)
(* NotePipeline.process_note, one action per stage.  An exception raised   *)
(* by a stage is caught by the except clause (lines 97-99).                *)
(***************************************************************************)
Idle(r) == ppc[r] \in {"idle", "returned"} /\ bpc[r] \in {"idle", "finished"}

\* the except clause reporting success
process_note_returns_true_on_error(line) == IF line \in {95, 99} THEN <<TRUE>> ELSE <<FALSE>>

\* the values of the return statement at a line of process_note
process_note_returns(line) == IF line = 95 THEN <<TRUE>> ELSE <<FALSE>>

\* the LLM called before the note is locked
process_note_flow_lock_late(stage, ok, raised) ==
    CASE raised -> [line |-> 99, next |-> "returned"]
      [] stage = "filter" /\ ~ok -> [line |-> 74, next |-> "returned"]
      [] stage = "filter" /\ ok -> [line |-> 0, next |-> "validate"]
      [] stage = "validate" /\ ~ok -> [line |-> 78, next |-> "returned"]
      [] stage = "validate" /\ ok -> [line |-> 0, next |-> "enhance"]
      [] stage = "enhance" /\ ~ok -> [line |-> 86, next |-> "returned"]
      [] stage = "enhance" /\ ok -> [line |-> 0, next |-> "lock"]
      [] stage = "lock" -> [line |-> 0, next |-> "metadata"]
      [] stage = "metadata" -> [line |-> 0, next |-> "save"]
      [] OTHER -> [line |-> 95, next |-> "returned"]

\* the note locked before it is validated
process_note_flow_lock_early(stage, ok, raised) ==
    CASE raised -> [line |-> 99, next |-> "returned"]
      [] stage = "filter" /\ ~ok -> [line |-> 74, next |-> "returned"]
      [] stage = "filter" /\ ok -> [line |-> 0, next |-> "lock"]
      [] stage = "lock" -> [line |-> 0, next |-> "validate"]
      [] stage = "validate" /\ ~ok -> [line |-> 78, next |-> "returned"]
      [] stage = "validate" /\ ok -> [line |-> 0, next |-> "enhance"]
      [] stage = "enhance" /\ ~ok -> [line |-> 86, next |-> "returned"]
      [] stage = "enhance" /\ ok -> [line |-> 0, next |-> "metadata"]
      [] stage = "metadata" -> [line |-> 0, next |-> "save"]
      [] OTHER -> [line |-> 95, next |-> "returned"]

\* where control goes after a stage that returned ok or raised: the line of
\* the return statement executed (0 when none is) and the next position
process_note_flow(stage, ok, raised) ==
    CASE raised -> [line |-> 99, next |-> "returned"]
      [] stage = "filter" /\ ~ok -> [line |-> 74, next |-> "returned"]
      [] stage = "filter" /\ ok -> [line |-> 0, next |-> "validate"]
      [] stage = "validate" /\ ~ok -> [line |-> 78, next |-> "returned"]
      [] stage = "validate" /\ ok -> [line |-> 0, next |-> "lock"]
      [] stage = "lock" -> [line |-> 0, next |-> "enhance"]
      [] stage = "enhance" /\ ~ok -> [line |-> 86, next |-> "returned"]
      [] stage = "enhance" /\ ok -> [line |-> 0, next |-> "metadata"]
      [] stage = "metadata" -> [line |-> 0, next |-> "save"]
      [] OTHER -> [line |-> 95, next |-> "returned"]

Enter(r, n) ==
    /\ note' = [note EXCEPT ![r] = n]
    /\ ppc' = [ppc EXCEPT ![r] = "filter"]
    /\ ret' = [ret EXCEPT ![r] = <<>>]
    /\ exitline' = [exitline EXCEPT ![r] = 0]
    /\ calls' = [calls EXCEPT ![r] = <<>>]
    /\ trail' = [trail EXCEPT ![r] = <<>>]
    /\ entry' = [entry EXCEPT ![r] =
           [name |-> n.name, file_path |-> n.file_path, content |-> n.content,
            files |-> files,
            was_persisted |-> /\ n.file_path \in DOMAIN persisted
                              /\ persisted[n.file_path] = n.content]]

\* the stage at ppc[r] has run: it returned ok or raised, left the Note as n
\* and made the collaborator calls cs
After(r, ok, raised, n, cs) ==
    LET f == process_note_flow(ppc[r], ok, raised) IN
    /\ note' = [note EXCEPT ![r] = n]
    /\ calls' = [calls EXCEPT ![r] = calls[r] \o cs]
    /\ trail' = [trail EXCEPT ![r] = Append(trail[r], ppc[r])]
    /\ ppc' = [ppc EXCEPT ![r] = f.next]
    /\ exitline' = [exitline EXCEPT ![r] = f.line]
    /\ ret' = [ret EXCEPT ![r] = IF f.line = 0 THEN <<>> ELSE process_note_returns(f.line)]
    /\ UNCHANGED entry

\* a caller builds a Note for a file of the folder and calls process_note
process_note(r) ==
    /\ Idle(r)
    /\ ncalls < MaxCalls
    /\ ncalls' = ncalls + 1
    /\ \E path \in CallPaths :
         Enter(r, NewNote(path, NameOf(path),
                          IF Exists(files, path) THEN files[path].content
                          ELSE Encode(Body1)))
    /\ bpc' = [bpc EXCEPT ![r] = "idle"]
    /\ UNCHANGED <<files, clock, prompts_fine, config, probe, persisted, todo, handled,
                   processed_count, batch_ret, listed, outcomes>>

FilterStage(r) ==
    /\ ppc[r] = "filter"
    /\ LET f == _filter(note[r]) IN After(r, f.verdict, f.raised, f.note, <<>>)
    /\ UNCHANGED <<files, clock, prompts_fine, config, probe, ncalls, persisted, batch_vars>>

ValidateStage(r) ==
    /\ ppc[r] = "validate"
    /\ After(r, _validate(note[r]), FALSE, note[r], <<>>)
    /\ UNCHANGED <<files, clock, prompts_fine, config, probe, ncalls, persisted, batch_vars>>

\* persisted keeps the paths Persist wrote that no one has touched since
LockStage(r) ==
    /\ ppc[r] = "lock"
    /\ \E io \in RenameOutcomes :
         LET m == _mark_as_processing(note[r], files, io)
         IN /\ files' = m.files
            /\ persisted' = [x \in {y \in DOMAIN persisted :
                                      y \in DOMAIN m.files /\ m.files[y] = files[y]}
                               |-> persisted[x]]
            /\ After(r, TRUE, m.raised, m.note, <<m.call>>)
    /\ UNCHANGED <<clock, prompts_fine, config, probe, ncalls, batch_vars>>

EnhanceStage(r) ==
    /\ ppc[r] = "enhance"
    /\ \E llm \in LLMBehaviours :
         LET e == _enhance_with_claude(note[r], prompts_fine, llm)
         IN After(r, e.ok, FALSE, e.note, e.calls)
    /\ UNCHANGED <<files, clock, prompts_fine, config, probe, ncalls, persisted, batch_vars>>

MetadataStage(r) ==
    /\ ppc[r] = "metadata"
    /\ LET g == _generate_metadata(note[r], clock) IN After(r, TRUE, g.raised, g.note, <<>>)
    /\ UNCHANGED <<files, clock, prompts_fine, config, probe, ncalls, persisted, batch_vars>>

SaveStage(r) ==
    /\ ppc[r] = "save"
    /\ \E io \in UpdateOutcomes :
         LET u == _save_to_file_system(note[r], files, clock, io)
             new == PathOf(Parent(note[r].file_path), u.call.new_name)
         IN /\ files' = u.files
            /\ clock' = IF u.files = files THEN clock ELSE clock + 1
            /\ persisted' =
                 [x \in {y \in DOMAIN persisted : y \in DOMAIN u.files /\ y # new}
                        \cup (IF u.raised THEN {} ELSE {new})
                    |-> IF x = new THEN u.call.content ELSE persisted[x]]
            /\ After(r, TRUE, u.raised, note[r], <<u.call>>)
    /\ UNCHANGED <<prompts_fine, config, probe, ncalls, batch_vars>>

(***************************************************************************)
(* NoteProcessor.process_notes: the listing, then one iteration per        *)
(* candidate; the except clause of the loop (lines 78-81) catches what the *)
(* iteration raises.                                                       *)
(***************************************************************************)
process_notes(r) ==
    /\ Idle(r)
    /\ ncalls < MaxCalls
    /\ ncalls' = ncalls + 1
    /\ \E io \in ListOutcomes :
         LET found == list_files(files, Inbox, io)
         IN /\ listed' = [listed EXCEPT ![r] = [entries |-> found, storage |-> files]]
            /\ IF found = <<>>
               THEN /\ bpc' = [bpc EXCEPT ![r] = "finished"]
                    /\ batch_ret' = [batch_ret EXCEPT ![r] = 0]
                    /\ todo' = [todo EXCEPT ![r] = <<>>]
               ELSE /\ bpc' = [bpc EXCEPT ![r] = "loop"]
                    /\ batch_ret' = [batch_ret EXCEPT ![r] = -1]
                    /\ todo' = [todo EXCEPT ![r] =
                                  FilesToProcess(found, config.max_notes_per_run)]
    /\ handled' = [handled EXCEPT ![r] = <<>>]
    /\ outcomes' = [outcomes EXCEPT ![r] = <<>>]
    /\ processed_count' = [processed_count EXCEPT ![r] = 0]
    /\ ppc' = [ppc EXCEPT ![r] = "idle"]
    /\ UNCHANGED <<files, clock, prompts_fine, config, probe, persisted, note, ret, exitline,
                   calls, trail, entry>>

\* how the iteration for one entry ended: whether read_file raised, the line
\* of process_note's return statement, the send_message calls it made, and
\* whether the entry was counted
Outcome(file_info, read_raised, line, sends, counted) ==
    [path |-> file_info.path, read_raised |-> read_raised, exitline |-> line,
     sends |-> sends, counted |-> counted]

\* a read error ending the loop
CreateNote_read_error_aborts(r) ==
    /\ bpc[r] = "loop"
    /\ todo[r] # <<>>
    /\ LET file_info == Head(todo[r]) IN
       /\ handled' = [handled EXCEPT ![r] = Append(handled[r], file_info)]
       /\ \E io \in ReadOutcomes :
            LET rd == read_file(files, file_info.path, io)
            IN IF rd.raised
               THEN /\ todo' = [todo EXCEPT ![r] = <<>>]
                    /\ outcomes' = [outcomes EXCEPT ![r] =
                           Append(outcomes[r], Outcome(file_info, TRUE, 0, 0, FALSE))]
                    /\ UNCHANGED <<bpc, pipeline_vars>>
               ELSE /\ Enter(r, NewNote(file_info.path, file_info.name, rd.content))
                    /\ bpc' = [bpc EXCEPT ![r] = "in_pipeline"]
                    /\ UNCHANGED <<todo, outcomes>>
    /\ UNCHANGED <<files, clock, prompts_fine, config, probe, ncalls, persisted,
                   processed_count, batch_ret, listed>>

\* _create_note_from_file, then the call of process_note
CreateNote(r) ==
    /\ bpc[r] = "loop"
    /\ todo[r] # <<>>
    /\ LET file_info == Head(todo[r]) IN
       /\ handled' = [handled EXCEPT ![r] = Append(handled[r], file_info)]
       /\ \E io \in ReadOutcomes :
            LET rd == read_file(files, file_info.path, io)
            IN IF rd.raised
               THEN /\ todo' = [todo EXCEPT ![r] = Tail(todo[r])]
                    /\ outcomes' = [outcomes EXCEPT ![r] =
                           Append(outcomes[r], Outcome(file_info, TRUE, 0, 0, FALSE))]
                    /\ UNCHANGED <<bpc, pipeline_vars>>
               ELSE /\ Enter(r, NewNote(file_info.path, file_info.name, rd.content))
                    /\ bpc' = [bpc EXCEPT ![r] = "in_pipeline"]
                    /\ UNCHANGED <<todo, outcomes>>
    /\ UNCHANGED <<files, clock, prompts_fine, config, probe, ncalls, persisted,
                   processed_count, batch_ret, listed>>

\* success, result = self.pipeline.process_note(note): a TypeError unless
\* two values were returned
Unpack(r) ==
    LET counted == Len(ret[r]) = 2 /\ ret[r][1] IN
    /\ bpc[r] = "in_pipeline"
    /\ ppc[r] = "returned"
    /\ processed_count' = [processed_count EXCEPT ![r] =
           IF counted THEN processed_count[r] + 1 ELSE processed_count[r]]
    /\ outcomes' = [outcomes EXCEPT ![r] =
           Append(outcomes[r],
                  Outcome(Head(todo[r]), FALSE, exitline[r],
                          Cardinality({i \in 1..Len(calls[r]) :
                                         calls[r][i].op = "send_message"}),
                          counted))]
    /\ todo' = [todo EXCEPT ![r] = Tail(todo[r])]
    /\ bpc' = [bpc EXCEPT ![r] = "loop"]
    /\ ppc' = [ppc EXCEPT ![r] = "idle"]
    /\ UNCHANGED <<files, clock, prompts_fine, config, probe, ncalls, persisted, note, ret,
                   exitline, calls, trail, entry, handled, batch_ret, listed>>

Finish(r) ==
    /\ bpc[r] = "loop"
    /\ todo[r] = <<>>
    /\ bpc' = [bpc EXCEPT ![r] = "finished"]
    /\ batch_ret' = [batch_ret EXCEPT ![r] = processed_count[r]]
    /\ UNCHANGED <<files, clock, prompts_fine, config, probe, ncalls, persisted,
                   pipeline_vars, todo, handled, processed_count, listed, outcomes>>

Next ==
    \E r \in SeqRuns :
        \/ process_note(r)
        \/ FilterStage(r)
        \/ ValidateStage(r)
        \/ LockStage(r)
        \/ EnhanceStage(r)
        \/ MetadataStage(r)
        \/ SaveStage(r)
        \/ process_notes(r)
        \/ CreateNote(r)
        \/ Unpack(r)
        \/ Finish(r)

Spec == Init /\ [][Next]_vars

(***************************************************************************)
(* Filter and Validate on their own: process_note called on one file whose *)
(* content is drawn from a wider set, followed up to the end of Validate.  *)
(***************************************************************************)
Absent == [ty |-> "absent"]
IgnoreValues ==
    { Bool(TRUE), Bool(FALSE), Str("true"), Str("True"), Str("TRUE"), Str("tRuE"),
      Str("true "), Str("yes"), Str("on"), Str("1"), Str("false"), Str(""),
      PyInt(1), None }
HashValues == { calculate_file_hash(Body1), calculate_file_hash(Body2), Str("sha256:0") }

\* a note with the body Body1 and a metadata block holding the given values
WithFrontmatter(note_hash, ignoreParse) ==
    IF note_hash = Absent /\ ignoreParse = Absent THEN Encode(Body1)
    ELSE Encode(<<Delim>>
                \o (IF note_hash = Absent THEN <<>> ELSE <<KV("note_hash", note_hash)>>)
                \o (IF ignoreParse = Absent THEN <<>> ELSE <<KV("ignoreParse", ignoreParse)>>)
                \o <<Delim>> \o Body1)

FilterContents ==
    { WithFrontmatter(h, i) : h \in HashValues \cup {Absent}, i \in IgnoreValues \cup {Absent} }
    \cup InitContents
    \cup { Encode(<<TextLine("exact")>>), Encode(<<TextLine("over")>>),
           Encode(<<Delim, KV("ignoreParse", Bool(TRUE)), Delim, TextLine("over")>>) }

FilterInit ==
    /\ \E c \in FilterContents :
          files = [p \in {PathOf(Inbox, <<"a">>)} |-> [content |-> c, mtime |-> 1]]
    /\ clock = 4
    /\ prompts_fine = TRUE
    /\ config = [max_notes_per_run |-> max_notes_per_run]
    /\ ncalls = 0
    /\ probe = NoProbe
    /\ NoCallYet

FilterNext ==
    \E r \in SeqRuns :
        \/ process_note(r)
        \/ FilterStage(r)
        \/ ValidateStage(r)

FilterSpec == FilterInit /\ [][FilterNext]_vars

(***************************************************************************)
(* One call over a folder of three unlocked notes with a limit of two      *)
(* notes per run.                                                          *)
(***************************************************************************)
BatchLimit == 2
BatchPaths == {PathOf(Inbox, <<"a">>), PathOf(Inbox, <<"b">>), PathOf(Inbox, <<"c">>)}
BatchContents ==
    { Encode(Body1),
      Encode(<<Delim, TextLine("t1"), Delim>> \o Body2),
      Encode(<<TextLine("big")>>) }

BatchFiles ==
    { [p \in BatchPaths |-> [content |-> IF NameOf(p) = <<"a">> THEN c ELSE Encode(Body1),
                             mtime |-> m[p]]] :
        c \in BatchContents,
        m \in {x \in [BatchPaths -> 1..3] : \A p, q \in BatchPaths : p # q => x[p] # x[q]} }

BatchInit ==
    /\ files \in BatchFiles
    /\ clock = 4
    /\ prompts_fine = TRUE
    /\ config = [max_notes_per_run |-> BatchLimit]
    /\ ncalls = MaxCalls - 1
    /\ probe = NoProbe
    /\ NoCallYet

BatchSpec == BatchInit /\ [][Next]_vars

(***************************************************************************)
(* parse_claude_response on its own, applied to a reply drawn from a wider *)
(* set of texts.                                                           *)
(***************************************************************************)
MaxTags == 3
TagItems == {Tag(m, n) : m \in 0..2, n \in {"x", "y"}}
TagLists == UNION {[1..n -> TagItems] : n \in 0..MaxTags}

NoMetadata == [py |-> "none", d |-> <<>>]
Mapping(metadata) == JsonLine(JsonDict({"content", "metadata"}, PyStr(Enhanced1), metadata))
WithTags(tags) ==
    [py |-> "dict", d |-> <<[k |-> "summary", v |-> Str("s")], [k |-> "tags", v |-> tags]>>]

MalformedReplies ==
    { <<TextLine("sorry")>>,
      EmptyText,
      <<TextLine(""), TextLine("sorry"), TextLine("")>>,
      <<JsonLine(JsonList)>>,
      <<JsonLine(JsonDict({}, PyOther, NoMetadata))>>,
      <<JsonLine(JsonDict({"content"}, PyStr(Enhanced1), NoMetadata))>>,
      <<JsonLine(JsonDict({"metadata"}, PyOther, WithTags(List(<<Tag(0, "x")>>))))>>,
      <<TextLine("sorry"), Mapping(WithTags(List(<<>>)))>>,
      <<FenceJson, TextLine("sorry"), Fence>>,
      <<FenceJson, Mapping(WithTags(List(<<>>)))>>,
      <<FenceJson, JsonLine(JsonDict({"content"}, PyStr(Enhanced1), NoMetadata)), Fence>>,
      <<Fence, JsonLine(JsonList), Fence>>,
      <<FenceJson, Fence>>,
      <<Fence>> }

MappingReplies ==
    { <<Mapping(WithTags(List(l)))>> : l \in TagLists }
    \cup { <<FenceJson, Mapping(WithTags(List(<<Tag(0, "x"), Tag(1, "y")>>))), Fence>>,
           <<Fence, Mapping(WithTags(List(<<Tag(0, "x"), Tag(1, "y")>>))), Fence>>,
           <<TextLine(""), Mapping(WithTags(List(<<Tag(0, "x"), Tag(2, "y")>>))), TextLine("")>>,
           <<Mapping(WithTags(List(<<Tag(0, "x"), NotAString>>)))>>,
           <<Mapping(WithTags(Str("x, y")))>>,
           <<Mapping([py |-> "dict", d |-> <<>>])>>,
           <<Mapping(NoMetadata)>>,
           <<Mapping([py |-> "list", d |-> <<>>])>> }

ParseReplies == MalformedReplies \cup MappingReplies

NoOut == [raised |-> FALSE, content |-> PyOther, metadata |-> NoMetadata]

ParseInit ==
    /\ files = <<>>
    /\ clock = 4
    /\ prompts_fine = TRUE
    /\ config = [max_notes_per_run |-> max_notes_per_run]
    /\ ncalls = 0
    /\ \E raw \in ParseReplies :
          probe = [fn |-> "parse_claude_response", arg |-> [raises |-> FALSE, raw |-> raw],
                   done |-> FALSE, out |-> NoOut]
    /\ NoCallYet

\* enhanced_data = self.prompt_manager.parse_claude_response(response), line 171
ParseReply ==
    /\ probe.fn = "parse_claude_response"
    /\ ~probe.done
    /\ probe' = [probe EXCEPT !.done = TRUE, !.out = parse_claude_response(probe.arg)]
    /\ UNCHANGED <<files, clock, prompts_fine, config, ncalls, persisted, pipeline_vars,
                   batch_vars>>

ParseNext == ParseReply

ParseSpec == ParseInit /\ [][ParseNext]_vars

(***************************************************************************)
(* The frontmatter codec on its own: parse_frontmatter applied to a text,  *)
(* generate_frontmatter applied to a mapping, and the two composed as Save *)
(* and the next Filter compose them.                                       *)
(***************************************************************************)
MaxKeys == 3

CodecValue(k) ==
    CASE k = "processed_datetime" -> Timestamp(4)
      [] k = "note_hash" -> calculate_file_hash(Body1)
      [] k = "summary" -> Str("true")
      [] k = "tags" -> List(<<Tag(0, "x")>>)
      [] k = "para_suggestion" -> Str("")
      [] k = "original_length" -> PyInt(1)
      [] k = "title" -> Str(ImpossibleDate)
      [] k = "ignoreParse" -> Bool(TRUE)
      [] OTHER -> None

CodecKeys == {"processed_datetime", "note_hash", "summary", "tags", "para_suggestion",
              "original_length", "title", "ignoreParse", "reviewed"}

\* the mappings of at most MaxKeys keys, in every insertion order
CodecMappings ==
    { [i \in DOMAIN ks |-> [k |-> ks[i], v |-> CodecValue(ks[i])]] :
        ks \in { s \in UNION {[1..n -> CodecKeys] : n \in 0..MaxKeys} :
                    \A i, j \in DOMAIN s : i # j => s[i] # s[j] } }

CodecBodies ==
    { EmptyText, Body1, Body2,
      <<Delim, TextLine("x"), Delim, TextLine("")>>,
      <<TextLine(""), Delim, TextLine("")>>,
      <<Delim>> }

CodecTexts ==
    { Body1, EmptyText, <<Delim>>,
      <<TextLine("x"), Delim, TextLine("")>>,
      <<Delim, TextLine("")>>,
      <<Delim, Delim, TextLine("")>>,
      <<Delim, KV("title", Str("s")), TextLine("")>>,
      <<Delim, KV("title", Str("s")), Delim>>,
      <<Delim, KV("title", Str("s")), TextLine("junk"), Delim, TextLine("t1")>>,
      <<Delim, KV("date", Plain(Str(ImpossibleDate))), Delim, TextLine("t1")>>,
      <<Delim, KV("date", Quoted(Str(ImpossibleDate))), Delim, TextLine("t1")>>,
      <<Delim, KV("title", Str("s")), Delim, TextLine("t1")>>,
      <<Delim, TextLine(""), Delim, TextLine("t1")>>,
      <<Delim, TextLine("just text"), Delim, TextLine("t1")>>,
      <<Delim, KV("title", Str("s")), Delim, TextLine("t1"), Delim, TextLine("")>> }

CodecProbes ==
    {[fn |-> "parse_frontmatter", arg |-> text, done |-> FALSE, out |-> NoOut] :
        text \in CodecTexts}
    \cup {[fn |-> "generate_frontmatter", arg |-> m, done |-> FALSE, out |-> NoOut] :
            m \in CodecMappings}
    \cup {[fn |-> "round_trip", arg |-> [metadata |-> m, body |-> b], done |-> FALSE,
           out |-> NoOut] : m \in CodecMappings, b \in CodecBodies}

CodecInit ==
    /\ files = <<>>
    /\ clock = 4
    /\ prompts_fine = TRUE
    /\ config = [max_notes_per_run |-> max_notes_per_run]
    /\ ncalls = 0
    /\ probe \in CodecProbes
    /\ NoCallYet

\* content_without_fm, frontmatter = parse_frontmatter(note.text_content)
ParseFrontmatter ==
    /\ probe.fn = "parse_frontmatter"
    /\ ~probe.done
    /\ probe' = [probe EXCEPT !.done = TRUE, !.out = parse_frontmatter(probe.arg)]
    /\ UNCHANGED <<files, clock, prompts_fine, config, ncalls, persisted, pipeline_vars,
                   batch_vars>>

\* frontmatter = generate_frontmatter(note.metadata)
GenerateFrontmatter ==
    /\ probe.fn = "generate_frontmatter"
    /\ ~probe.done
    /\ probe' = [probe EXCEPT !.done = TRUE, !.out = generate_frontmatter(probe.arg)]
    /\ UNCHANGED <<files, clock, prompts_fine, config, ncalls, persisted, pipeline_vars,
                   batch_vars>>

\* parse_frontmatter(generate_frontmatter(metadata) + body)
RoundTrip ==
    /\ probe.fn = "round_trip"
    /\ ~probe.done
    /\ probe' = [probe EXCEPT
                   !.done = TRUE,
                   !.out = parse_frontmatter(Concat(generate_frontmatter(probe.arg.metadata),
                                                    probe.arg.body))]
    /\ UNCHANGED <<files, clock, prompts_fine, config, ncalls, persisted, pipeline_vars,
                   batch_vars>>

CodecNext == ParseFrontmatter \/ GenerateFrontmatter \/ RoundTrip

CodecSpec == CodecInit /\ [][CodecNext]_vars

(***************************************************************************)
(* Runs over an inbox that receives notes: between two calls a new note    *)
(* may be saved under a name the folder does not hold.  The folder starts  *)
(* with no lock-marked file, so every lock-marked file that no running     *)
(* call holds was left by a call that ended after Lock without saving.     *)
(***************************************************************************)
RecoveryPaths == {PathOf(Inbox, <<"a">>), PathOf(Inbox, <<"b">>)}

RecoveryFiles ==
    { [p \in P |-> [content |-> Encode(Body1),
                    mtime |-> IF NameOf(p) = <<"a">> THEN 2 ELSE 1]] :
        P \in (SUBSET RecoveryPaths) \ {{}} }

RecoveryInit ==
    /\ files \in RecoveryFiles
    /\ clock = 4
    /\ prompts_fine \in BOOLEAN
    /\ config = [max_notes_per_run |-> max_notes_per_run]
    /\ ncalls = 0
    /\ probe = NoProbe
    /\ NoCallYet

\* the user saves a new note into the inbox
Arrive ==
    /\ \A r \in Runs : Idle(r)
    /\ \E path \in RecoveryPaths \ DOMAIN files :
          files' = WriteAt(files, path, [content |-> Encode(Body2), mtime |-> clock])
    /\ clock' = clock + 1
    /\ UNCHANGED <<prompts_fine, config, probe, ncalls, persisted, pipeline_vars, batch_vars>>

RecoveryNext == Next \/ Arrive

RecoverySpec == RecoveryInit /\ [][RecoveryNext]_vars

(***************************************************************************)
(* Repeated batch runs in which nothing fails: the listing, every read,    *)
(* rename and write succeed, the LLM answers and Enhance succeeds.  The    *)
(* inbox holds two notes that have not been processed.                     *)
(***************************************************************************)
StarvePaths == {PathOf(Inbox, <<"a">>), PathOf(Inbox, <<"b">>)}
StarveContents ==
    { Encode(Body1), Encode(Body2),
      Encode(<<Delim, KV("title", Str("mine")), Delim>> \o Body1) }

StarveFiles ==
    { [p \in StarvePaths |-> [content |-> c[p], mtime |-> m[p]]] :
        c \in [StarvePaths -> StarveContents],
        m \in {x \in [StarvePaths -> 1..2] : \A p, q \in StarvePaths : p # q => x[p] # x[q]} }

StarveInit ==
    /\ files \in StarveFiles
    /\ clock = 4
    /\ prompts_fine = TRUE
    /\ config = [max_notes_per_run |-> max_notes_per_run]
    /\ ncalls = 0
    /\ probe = NoProbe
    /\ NoCallYet

\* no collaborator call has raised, no read has failed, the listing holds
\* every file of the inbox, and no call of process_note has ended in
\* LLM_FAILED or in the except clause
NoFault ==
    \A r \in Runs :
        /\ \A i \in DOMAIN calls[r] : ~calls[r][i].raised
        /\ \A i \in DOMAIN outcomes[r] : ~outcomes[r][i].read_raised
        /\ exitline[r] \notin {86, 99}
        /\ Len(listed[r].entries) = Cardinality(DOMAIN listed[r].storage)

StarveNext ==
    \E r \in SeqRuns :
        \/ process_notes(r) /\ NoFault'
        \/ CreateNote(r) /\ NoFault'
        \/ FilterStage(r) /\ NoFault'
        \/ ValidateStage(r) /\ NoFault'
        \/ LockStage(r) /\ NoFault'
        \/ EnhanceStage(r) /\ NoFault'
        \/ MetadataStage(r) /\ NoFault'
        \/ SaveStage(r) /\ NoFault'
        \/ Unpack(r) /\ NoFault'
        \/ Finish(r) /\ NoFault'

StarveSpec == StarveInit /\ [][StarveNext]_vars

(***************************************************************************)
(* Two batch runs over the same folder, each started once, their steps     *)
(* interleaved.  Each system call on the storage is one step: the rename   *)
(* of Lock, and in update_file the write of the final file and then the    *)
(* removal of the locked one.                                              *)
(***************************************************************************)
\* _save_to_file_system up to new_path.write_bytes(content)
SaveWrite(r) ==
    /\ ppc[r] = "save"
    /\ \E io \in UpdateOutcomes \ {"unlink_fails"} :
         LET n == note[r]
             final_name == FinalName(n.name)
             new == PathOf(Parent(n.file_path), final_name)
             content == Encode(FinalContent(n))
         IN IF io = "write_fails"
            THEN /\ UNCHANGED <<files, clock>>
                 /\ persisted' = [x \in DOMAIN persisted \ {new} |-> persisted[x]]
                 /\ After(r, TRUE, TRUE, n,
                          <<[op |-> "update_file", file_path |-> n.file_path,
                             new_name |-> final_name, content |-> content,
                             raised |-> TRUE]>>)
            ELSE /\ files' = WriteAt(files, new, [content |-> content, mtime |-> clock])
                 /\ clock' = clock + 1
                 /\ persisted' = [x \in DOMAIN persisted \cup {new} |->
                                    IF x = new THEN content ELSE persisted[x]]
                 /\ ppc' = [ppc EXCEPT ![r] = "unlink"]
                 /\ UNCHANGED <<note, ret, exitline, calls, trail, entry>>
    /\ UNCHANGED <<prompts_fine, config, probe, ncalls, batch_vars>>

\* the rest of update_file: old_path.unlink() if the name changed and
\* old_path exists, then the return of process_note
SaveUnlink(r) ==
    /\ ppc[r] = "unlink"
    /\ \E io \in UpdateOutcomes \ {"write_fails"} :
         LET n == note[r]
             final_name == FinalName(n.name)
             old == n.file_path
             new == PathOf(Parent(old), final_name)
             due == old # new /\ Exists(files, old)
             raised == io = "unlink_fails" /\ due
             left == IF due /\ ~raised THEN Unlink(files, old) ELSE files
         IN /\ files' = left
            /\ persisted' = [x \in {y \in DOMAIN persisted :
                                      y \in DOMAIN left /\ (raised => y # new)}
                               |-> persisted[x]]
            /\ After(r, TRUE, raised, n,
                     <<[op |-> "update_file", file_path |-> old,
                        new_name |-> final_name, content |-> Encode(FinalContent(n)),
                        raised |-> raised]>>)
    /\ UNCHANGED <<clock, prompts_fine, config, probe, ncalls, batch_vars>>

ConcurrentInit ==
    /\ files \in RecoveryFiles
    /\ clock = 4
    /\ prompts_fine = TRUE
    /\ config = [max_notes_per_run |-> max_notes_per_run]
    /\ ncalls = 0
    /\ probe = NoProbe
    /\ NoCallYet

\* the replies of the LLM in the concurrent runs: raising, or well-formed
\* with a summary and tags
ConcurrentReplies ==
    { LLMRaises.raw,
      Reply(TRUE, EmptyText, PyStr(Enhanced1),
            [py |-> "dict",
             d |-> <<[k |-> "summary", v |-> Str("s")],
                     [k |-> "tags", v |-> List(<<Tag(0, "x")>>)]>>]).raw }

RepliesAmong(replies) ==
    \A r \in Runs : \A i \in DOMAIN calls[r] :
        calls[r][i].op = "send_message" => calls[r][i].response \in replies

ConcurrentNext ==
    \E r \in Runs :
        \/ process_notes(r) /\ bpc[r] = "idle"
        \/ CreateNote(r)
        \/ FilterStage(r)
        \/ ValidateStage(r)
        \/ LockStage(r)
        \/ EnhanceStage(r) /\ RepliesAmong(ConcurrentReplies)'
        \/ MetadataStage(r)
        \/ SaveWrite(r)
        \/ SaveUnlink(r)
        \/ Unpack(r)
        \/ Finish(r)

ConcurrentSpec == ConcurrentInit /\ [][ConcurrentNext]_vars

(***************************************************************************)
(* ClaudeClient.send_message: the retry loop around messages.create.       *)
(* probe holds the call: max_retries, retry_count, the outcomes of the API *)
(* calls made (attempts), the waits slept, the position pc (try: at the    *)
(* loop test; sleep: before time.sleep; returned; raised) and out, the     *)
(* text returned or the exception raised.                                  *)
(***************************************************************************)
MaxRetries == 5
DEFAULT_MAX_RETRIES == 3
BACKOFF_BASE == 2

\* messages.create returns a message with a text block (ok) or without one
\* (empty), or raises
ApiOutcomes == {"ok", "empty", "RateLimitError", "APIError", "Exception"}
ResponseText == "response_text"

\* _extract_text_from_response: the text of the first text block, else ''
ExtractText(api) == IF api = "ok" THEN ResponseText ELSE ""

RECURSIVE Power(_, _)
Power(b, e) == IF e = 0 THEN 1 ELSE b * Power(b, e - 1)

\* every API error retried
AfterAttempt_retries_every_error(max_retries, retry_count, api) ==
    CASE api \in {"ok", "empty"} ->
            [pc |-> "returned", retry_count |-> retry_count, out |-> ExtractText(api)]
      [] OTHER ->
            IF retry_count + 1 > max_retries
            THEN [pc |-> "raised", retry_count |-> retry_count + 1, out |-> api]
            ELSE [pc |-> "sleep", retry_count |-> retry_count + 1, out |-> ""]

\* the try statement of one pass of the loop, by the outcome of
\* messages.create: the return, or the except clause entered
AfterAttempt(max_retries, retry_count, api) ==
    CASE api \in {"ok", "empty"} ->
            [pc |-> "returned", retry_count |-> retry_count, out |-> ExtractText(api)]
      [] api = "RateLimitError" ->
            IF retry_count + 1 > max_retries
            THEN [pc |-> "raised", retry_count |-> retry_count + 1, out |-> api]
            ELSE [pc |-> "sleep", retry_count |-> retry_count + 1, out |-> ""]
      [] OTHER -> [pc |-> "raised", retry_count |-> retry_count, out |-> api]

SendCalls ==
    { [fn |-> "send_message", max_retries |-> m, retry_count |-> 0, attempts |-> <<>>,
       slept |-> <<>>, pc |-> "try", out |-> ""] :
        m \in (-1..MaxRetries) \cup {DEFAULT_MAX_RETRIES} }

SendInit ==
    /\ files = <<>>
    /\ clock = 4
    /\ prompts_fine = TRUE
    /\ config = [max_notes_per_run |-> max_notes_per_run]
    /\ ncalls = 0
    /\ probe \in SendCalls
    /\ NoCallYet

\* one pass of the while loop up to the end of its try statement
CreateMessage ==
    /\ probe.fn = "send_message"
    /\ probe.pc = "try"
    /\ probe.retry_count <= probe.max_retries
    /\ \E api \in ApiOutcomes :
         LET a == AfterAttempt(probe.max_retries, probe.retry_count, api)
         IN probe' = [probe EXCEPT !.attempts = Append(probe.attempts, api),
                                   !.retry_count = a.retry_count,
                                   !.pc = a.pc,
                                   !.out = a.out]
    /\ UNCHANGED <<files, clock, prompts_fine, config, ncalls, persisted, pipeline_vars,
                   batch_vars>>

\* time.sleep((BACKOFF_BASE ** retry_count) * 1.0), then the loop test
Backoff ==
    /\ probe.fn = "send_message"
    /\ probe.pc = "sleep"
    /\ probe' = [probe EXCEPT !.slept = Append(probe.slept,
                                              Power(BACKOFF_BASE, probe.retry_count)),
                              !.pc = "try"]
    /\ UNCHANGED <<files, clock, prompts_fine, config, ncalls, persisted, pipeline_vars,
                   batch_vars>>

\* the loop test failing: raise RuntimeError(...)
LoopExhausted ==
    /\ probe.fn = "send_message"
    /\ probe.pc = "try"
    /\ ~(probe.retry_count <= probe.max_retries)
    /\ probe' = [probe EXCEPT !.pc = "raised", !.out = "RuntimeError"]
    /\ UNCHANGED <<files, clock, prompts_fine, config, ncalls, persisted, pipeline_vars,
                   batch_vars>>

SendNext == CreateMessage \/ Backoff \/ LoopExhausted

SendSpec == SendInit /\ [][SendNext]_vars

\* the interpreter keeps running the loop, and every API call and every
\* sleep comes back
SendLiveSpec == SendSpec /\ WF_vars(SendNext)

(***************************************************************************)
(* llm.factory.create_llm_client_with_fallback.  probe holds the call:     *)
(* llm the mapping config.llm (a key that is missing is not in its         *)
(* domain), works the providers whose client can be created, attempts the  *)
(* providers handed to create_llm_client so far, rest the emergency        *)
(* providers still to try, pc the position and out the provider whose      *)
(* client is returned or the exception raised.                             *)
(***************************************************************************)
CLIENT_REGISTRY == <<"litellm", "claude_direct">>
Registered == {CLIENT_REGISTRY[i] : i \in DOMAIN CLIENT_REGISTRY}
NoProvider == "None"

\* llm_config.get(key, default)
ConfigGet(llm, key, default) == IF key \in DOMAIN llm THEN llm[key] ELSE default

\* create_llm_client(config, provider_name) returns a client: the provider
\* is registered, its class can be constructed and its configuration is
\* valid; else it raises
create_llm_client(works, provider_name) == provider_name \in Registered /\ provider_name \in works

\* the fallback provider tried again as an emergency provider
available_providers_keeps_fallback(primary_provider, fallback_provider) ==
    SelectSeq(CLIENT_REGISTRY, LAMBDA p : p # primary_provider)

\* [p for p in CLIENT_REGISTRY.keys() if p not in [primary, fallback]]
available_providers(primary_provider, fallback_provider) ==
    SelectSeq(CLIENT_REGISTRY, LAMBDA p : p \notin {primary_provider, fallback_provider})

\* bool(fallback_provider): neither None nor ''
Truthy(provider) == provider \notin {NoProvider, ""}

ProviderNames == Registered \cup {"openai"}
LlmConfigs ==
    { [k \in K |-> IF k = "primary_provider" THEN pr ELSE fb] :
        K \in SUBSET {"primary_provider", "fallback_provider"},
        pr \in ProviderNames,
        fb \in ProviderNames \cup {NoProvider, ""} }

FactoryCalls ==
    { [fn |-> "create_llm_client_with_fallback", llm |-> llm, works |-> w,
       attempts |-> <<>>, rest |-> <<>>, pc |-> "primary", out |-> ""] :
        llm \in LlmConfigs, w \in SUBSET Registered }

FactoryInit ==
    /\ files = <<>>
    /\ clock = 4
    /\ prompts_fine = TRUE
    /\ config = [max_notes_per_run |-> max_notes_per_run]
    /\ ncalls = 0
    /\ probe \in FactoryCalls
    /\ NoCallYet

primary_provider == ConfigGet(probe.llm, "primary_provider", "claude_direct")
fallback_provider == ConfigGet(probe.llm, "fallback_provider", NoProvider)

\* the call create_llm_client(config, provider) at a position: the client
\* returned, or control passed on to next
TryProvider(provider, next, rest) ==
    IF create_llm_client(probe.works, provider)
    THEN probe' = [probe EXCEPT !.attempts = Append(probe.attempts, provider),
                                !.pc = "returned", !.out = provider]
    ELSE probe' = [probe EXCEPT !.attempts = Append(probe.attempts, provider),
                                !.pc = next, !.rest = rest]

TryPrimary ==
    /\ probe.fn = "create_llm_client_with_fallback"
    /\ probe.pc = "primary"
    /\ TryProvider(primary_provider, "fallback", <<>>)
    /\ UNCHANGED <<files, clock, prompts_fine, config, ncalls, persisted, pipeline_vars,
                   batch_vars>>

\* if fallback_provider and fallback_provider != primary_provider: ...
\* and then the list of the emergency providers
TryFallback ==
    /\ probe.fn = "create_llm_client_with_fallback"
    /\ probe.pc = "fallback"
    /\ LET rest == available_providers(primary_provider, fallback_provider)
       IN IF Truthy(fallback_provider) /\ fallback_provider # primary_provider
          THEN TryProvider(fallback_provider, "others", rest)
          ELSE probe' = [probe EXCEPT !.pc = "others", !.rest = rest]
    /\ UNCHANGED <<files, clock, prompts_fine, config, ncalls, persisted, pipeline_vars,
                   batch_vars>>

\* one pass of the loop over available_providers
TryEmergency ==
    /\ probe.fn = "create_llm_client_with_fallback"
    /\ probe.pc = "others"
    /\ probe.rest # <<>>
    /\ TryProvider(Head(probe.rest), "others", Tail(probe.rest))
    /\ UNCHANGED <<files, clock, prompts_fine, config, ncalls, persisted, pipeline_vars,
                   batch_vars>>

\* raise RuntimeError("Failed to create any LLM client. ...")
NoProviderWorked ==
    /\ probe.fn = "create_llm_client_with_fallback"
    /\ probe.pc = "others"
    /\ probe.rest = <<>>
    /\ probe' = [probe EXCEPT !.pc = "raised", !.out = "RuntimeError"]
    /\ UNCHANGED <<files, clock, prompts_fine, config, ncalls, persisted, pipeline_vars,
                   batch_vars>>

FactoryNext == TryPrimary \/ TryFallback \/ TryEmergency \/ NoProviderWorked

FactorySpec == FactoryInit /\ [][FactoryNext]_vars

(***************************************************************************)
(* Properties.                                                             *)
(***************************************************************************)
Results == {"SUCCESS", "FILTERED", "VALIDATION_FAILED", "LLM_FAILED", "ERROR"}
Returned(r) == ppc[r] = "returned"
Ops(cs) == [i \in 1..Len(cs) |-> cs[i].op]
IsPrefix(s, t) == Len(s) <= Len(t) /\ \A i \in 1..Len(s) : s[i] = t[i]
CallsOf(r, op) == {i \in 1..Len(calls[r]) : calls[r][i].op = op}
SomethingRaised(r) == exitline[r] = 99 \/ \E i \in 1..Len(calls[r]) : calls[r][i].raised
LockedPath(path) == PathOf(Parent(path), LockedName(NameOf(path)))

\* persisted is what storage holds at the paths it names
PersistedInFiles ==
    \A p \in DOMAIN persisted : Exists(files, p) /\ files[p].content = persisted[p]

\* C1: whenever a stage or a collaborator raised during a process_note call,
\* the call returns (false, ERROR).
C1_RaisedReturnsFalseError ==
    \A r \in Runs : Returned(r) /\ SomethingRaised(r) => ret[r] = <<FALSE, "ERROR">>

\* C2: every process_note call returns a pair (success, result) with
\* success <=> result = SUCCESS, and the result names the stage that stopped
\* the note.
C2_ReturnsAgreeingPair ==
    \A r \in Runs : Returned(r) =>
        /\ Len(ret[r]) = 2
        /\ ret[r][1] \in BOOLEAN
        /\ ret[r][2] \in Results
        /\ ret[r][1] <=> ret[r][2] = "SUCCESS"
        /\ exitline[r] = 74 => ret[r][2] = "FILTERED"
        /\ exitline[r] = 78 => ret[r][2] = "VALIDATION_FAILED"
        /\ exitline[r] = 86 => ret[r][2] = "LLM_FAILED"
        /\ exitline[r] = 99 => ret[r][2] = "ERROR"

\* C3: the collaborator calls of one process_note call are a prefix of
\* rename_file, send_message, update_file (so none is issued twice, the
\* rename precedes the LLM call and the write follows it), and a note that
\* passed Filter and Validate has had exactly one rename attempt.
PassedFilterAndValidate(r) ==
    /\ \E i \in 1..Len(trail[r]) : trail[r][i] = "validate"
    /\ ppc[r] \notin {"filter", "validate", "lock"}
    /\ exitline[r] # 78

C3_CallsArePrefix ==
    \A r \in Runs :
        /\ IsPrefix(Ops(calls[r]), <<"rename_file", "send_message", "update_file">>)
        /\ PassedFilterAndValidate(r) => Cardinality(CallsOf(r, "rename_file")) = 1

C3_Witness ==
    /\ Returned("r1") /\ PassedFilterAndValidate("r1")
    /\ Ops(calls["r1"]) = <<"rename_file", "send_message", "update_file">>

\* C4: process_note reports success exactly when update_file was called and
\* returned without raising, and no step other than Persist puts new content
\* into storage.
SuccessIffUpdated ==
    \A r \in Runs : Returned(r) =>
        (ret[r] # <<>> /\ ret[r][1] = TRUE
            <=> \E i \in CallsOf(r, "update_file") : ~calls[r][i].raised)

ContentsIn(fs) == {fs[p].content : p \in DOMAIN fs}

OnlyPersistWrites ==
    ContentsIn(files') \ ContentsIn(files) # {}
        => \E r \in Runs : ppc[r] = "save" /\ CallsOf(r, "update_file")' # {}

C4_SuccessIffPersisted == []SuccessIffUpdated /\ [][OnlyPersistWrites]_vars

C4_Witness ==
    /\ Returned("r1") /\ ret["r1"] = <<TRUE>>
    /\ \E i \in CallsOf("r1", "update_file") : ~calls["r1"][i].raised

\* C5: a process_note call that stopped at Filter's or Validate's rejection
\* made no collaborator call and left storage and the note's name and path
\* as they were when it was called.
C5_RejectionTouchesNothing ==
    \A r \in Runs : Returned(r) /\ exitline[r] \in {74, 78} =>
        /\ calls[r] = <<>>
        /\ files = entry[r].files
        /\ note[r].name = entry[r].name
        /\ note[r].file_path = entry[r].file_path

C5_Witness ==
    /\ Returned("r1") /\ exitline["r1"] = 78
    /\ Exists(files, entry["r1"].file_path)

\* C6: when send_message raises, process_note returns (false, LLM_FAILED),
\* the lock rename has been applied, no update_file call was made, the file
\* is in storage under its lock-marked name with its original content, and
\* send_message was called once.
C6_LlmFailureLeavesLocked ==
    \A r \in Runs :
        Returned(r) /\ (\E i \in CallsOf(r, "send_message") : calls[r][i].raised) =>
            /\ ret[r] = <<FALSE, "LLM_FAILED">>
            /\ \E i \in CallsOf(r, "rename_file") : ~calls[r][i].raised
            /\ CallsOf(r, "update_file") = {}
            /\ Cardinality(CallsOf(r, "send_message")) = 1
            /\ Exists(files, LockedPath(entry[r].file_path))
            /\ files[LockedPath(entry[r].file_path)].content = entry[r].content

\* C7: process_note called on a file as Persist wrote it (same bytes, final
\* name) returns (false, FILTERED) and makes no rename, write or LLM call.
C7_SavedFileIsFiltered ==
    \A r \in Runs : Returned(r) /\ entry[r].was_persisted =>
        /\ ret[r] = <<FALSE, "FILTERED">>
        /\ calls[r] = <<>>

\* C8: in the content of every update_file call the metadata block's
\* note_hash is the fingerprint of the body after the block and
\* processed_datetime is a stamp of the pipeline, whatever the reply's
\* metadata held.
StampedContent(content) ==
    LET p == parse_frontmatter(content.text) IN
    /\ content.ok /\ p.isdict
    /\ DictHas(p.d, "note_hash")
    /\ DictGet(p.d, "note_hash", Bool(FALSE)) = calculate_file_hash(p.body)
    /\ DictHas(p.d, "processed_datetime")
    /\ DictGet(p.d, "processed_datetime", Bool(FALSE)) \in {Timestamp(t) : t \in 0..clock}

C8_PipelineStampsWin ==
    \A r \in Runs : \A i \in CallsOf(r, "update_file") : StampedContent(calls[r][i].content)

C8_Witness ==
    \E i \in CallsOf("r1", "update_file") :
        /\ DictHas(parse_frontmatter(calls["r1"][i].content.text).d, "ignoreParse")
        /\ ~calls["r1"][i].raised

\* C9: after a successful process_note the name given to update_file is the
\* note's original name, without lock marker; storage holds the written
\* content under that name and no file under the lock-marked name.
C9_FinalNameIsOriginal ==
    \A r \in Runs : Returned(r) /\ exitline[r] = 95 =>
        \E i \in CallsOf(r, "update_file") :
            /\ calls[r][i].new_name = entry[r].name
            /\ ~StartsWithLock(calls[r][i].new_name)
            /\ Exists(files, entry[r].file_path)
            /\ files[entry[r].file_path].content = calls[r][i].content
            /\ ~Exists(files, LockedPath(entry[r].file_path))

C9_Witness ==
    /\ Returned("r1") /\ exitline["r1"] = 95
    /\ \E i \in CallsOf("r1", "rename_file") :
           ~calls["r1"][i].raised /\ StartsWithLock(calls["r1"][i].new_name)

C10_BatchWitness ==
    /\ bpc["r1"] = "finished" /\ handled["r1"] # <<>>
    /\ \E p \in DOMAIN files : StartsWithLock(NameOf(p))

\* What Filter sees of the note process_note was called with.
FilterRan(r) == trail[r] # <<>> /\ ppc[r] # "idle"
Unlocked(r) == ~StartsWithLock(entry[r].name)
EntryFrontmatter(r) == parse_frontmatter(entry[r].content.text)
FilterReadsMetadata(r) ==
    FilterRan(r) /\ Unlocked(r) /\ entry[r].content.ok /\ EntryFrontmatter(r).isdict
SkipValues == {Bool(TRUE), Str("true"), Str("True"), Str("TRUE"), Str("tRuE")}
HasSkipDirective(r) ==
    /\ DictHas(EntryFrontmatter(r).d, "ignoreParse")
    /\ DictGet(EntryFrontmatter(r).d, "ignoreParse", Absent) \in SkipValues
HashMatches(r) ==
    /\ DictHas(EntryFrontmatter(r).d, "note_hash")
    /\ DictGet(EntryFrontmatter(r).d, "note_hash", Absent)
         = calculate_file_hash(EntryFrontmatter(r).body)
RejectedByFilter(r) == trail[r] = <<"filter">> /\ Returned(r) /\ exitline[r] = 74
PassedFilter(r) == Len(trail[r]) > 1 \/ (trail[r] = <<"filter">> /\ ppc[r] = "validate")

\* C11: with an ignoreParse value of boolean true or of a string equal to
\* 'true' ignoring case, Filter rejects the note whatever its note_hash; with
\* the key missing or any other value the directive does not reject it: the
\* note passes Filter unless its note_hash matches.
C11_SkipDirective ==
    \A r \in Runs : FilterReadsMetadata(r) =>
        /\ HasSkipDirective(r) => RejectedByFilter(r)
        /\ ~HasSkipDirective(r) /\ ~HashMatches(r) => PassedFilter(r)

C11_Witness ==
    /\ FilterReadsMetadata("r1") /\ RejectedByFilter("r1")
    /\ DictGet(EntryFrontmatter("r1").d, "ignoreParse", Absent) = Str("TRUE")
    /\ DictHas(EntryFrontmatter("r1").d, "note_hash") /\ ~HashMatches("r1")

C11_WitnessOtherValue ==
    /\ FilterReadsMetadata("r1") /\ PassedFilter("r1")
    /\ DictGet(EntryFrontmatter("r1").d, "ignoreParse", Absent) = Str("yes")

\* C12: a note that is not lock-marked, decodes and has no skipping
\* directive is rejected by Filter exactly when its metadata has a note_hash
\* equal to the fingerprint of its body without the metadata block.
C12_RejectedIffHashMatches ==
    \A r \in Runs : FilterReadsMetadata(r) /\ ~HasSkipDirective(r) =>
        /\ RejectedByFilter(r) <=> HashMatches(r)
        /\ PassedFilter(r) <=> ~HashMatches(r)

C12_Witness ==
    /\ FilterReadsMetadata("r1") /\ ~HasSkipDirective("r1")
    /\ HashMatches("r1") /\ RejectedByFilter("r1")

C12_WitnessStaleHash ==
    /\ FilterReadsMetadata("r1") /\ ~HasSkipDirective("r1")
    /\ DictHas(EntryFrontmatter("r1").d, "note_hash") /\ PassedFilter("r1")

ValidateRan(r) == \E i \in 1..Len(trail[r]) : trail[r][i] = "validate"

C14_RejectsIffOverLimit ==
    \A r \in Runs : ValidateRan(r) =>
        (exitline[r] = 78 <=> ByteLen(entry[r].content) > max_note_size_kb * BYTES_PER_KB)

C14_Witness ==
    /\ ValidateRan("r1") /\ exitline["r1"] # 78
    /\ ByteLen(entry["r1"].content) = max_note_size_kb * BYTES_PER_KB

C14_WitnessOneOver ==
    /\ ValidateRan("r1") /\ exitline["r1"] = 78
    /\ ByteLen(entry["r1"].content) = max_note_size_kb * BYTES_PER_KB + 1

\* A batch run in progress or just finished, and what it selected.
InBatch(r) == bpc[r] # "idle"
UnlockedBefore(es, i) == Cardinality({j \in 1..(i - 1) : ~StartsWithLock(es[j].name)})
ChosenIndexes(r) ==
    {i \in 1..Len(listed[r].entries) :
        /\ ~StartsWithLock(listed[r].entries[i].name)
        /\ UnlockedBefore(listed[r].entries, i) < config.max_notes_per_run}
NthChosen(r, k) ==
    CHOOSE i \in ChosenIndexes(r) : Cardinality({j \in ChosenIndexes(r) : j < i}) = k - 1
\* the entries taken so far and those still to take
Taken(r) == handled[r] \o (IF bpc[r] = "in_pipeline" THEN Tail(todo[r]) ELSE todo[r])
NewestFirstListing(r) ==
    \A i, j \in 1..Len(listed[r].entries) : i < j =>
        /\ listed[r].entries[i].modified_time > listed[r].entries[j].modified_time
        /\ listed[r].entries[i].modified_time = listed[r].storage[listed[r].entries[i].path].mtime
TakesTheFirstEligible(r) ==
    /\ NewestFirstListing(r)
    /\ Len(Taken(r)) = Cardinality(ChosenIndexes(r))
    /\ \A k \in 1..Len(Taken(r)) : Taken(r)[k] = listed[r].entries[NthChosen(r, k)]
    /\ bpc[r] = "in_pipeline" =>
          /\ entry[r].file_path = handled[r][Len(handled[r])].path
          /\ entry[r].content = listed[r].storage[entry[r].file_path].content
UntouchedSince(r, i) ==
    /\ Exists(files, listed[r].entries[i].path)
    /\ files[listed[r].entries[i].path] = listed[r].storage[listed[r].entries[i].path]

\* C15: a batch run takes exactly the first min(max_notes_per_run, number of
\* unlocked entries) unlocked entries of the listing, in the listing's
\* newest-first order, and every other listed file stays as it was.
C15_OnlyFirstEntriesTouched ==
    \A r \in Runs : InBatch(r) =>
        /\ TakesTheFirstEligible(r)
        /\ \A i \in 1..Len(listed[r].entries) : i \notin ChosenIndexes(r) => UntouchedSince(r, i)

\* what holds of C15: the selection, and the unlocked entries not selected
\* stay as they were
BatchLeavesUnselectedNotes ==
    \A r \in Runs : InBatch(r) =>
        /\ TakesTheFirstEligible(r)
        /\ \A i \in 1..Len(listed[r].entries) :
              i \notin ChosenIndexes(r) /\ ~StartsWithLock(listed[r].entries[i].name)
                  => UntouchedSince(r, i)

BatchTruncates ==
    /\ bpc["r1"] = "finished"
    /\ Len(handled["r1"]) = config.max_notes_per_run
    /\ Len(EligibleFiles(listed["r1"].entries)) > config.max_notes_per_run

\* C16: the count a batch run returns is the number of its candidates for
\* which process_note ended in success (enhanced and persisted).
Succeeded(r) == {i \in 1..Len(outcomes[r]) : outcomes[r][i].exitline = 95}

C16_CountIsSuccesses ==
    \A r \in Runs : bpc[r] = "finished" => batch_ret[r] = Cardinality(Succeeded(r))

\* what holds of C16: nothing is ever counted
BatchCountsNothing ==
    \A r \in Runs : processed_count[r] = 0 /\ (bpc[r] = "finished" => batch_ret[r] = 0)

\* C17: a candidate whose read or processing raises is not counted, the
\* pipeline is not invoked for a candidate whose read raised, every
\* candidate selected still gets its iteration, and the run returns a count.
Remaining(r) == IF bpc[r] = "in_pipeline" THEN Len(todo[r]) - 1 ELSE Len(todo[r])
IterationRaised(o) == o.read_raised \/ o.exitline = 99 \/ ~o.counted

NoNoteAbortsTheBatch ==
    \A r \in Runs : InBatch(r) =>
        /\ \A i \in 1..Len(outcomes[r]) :
              /\ outcomes[r][i].read_raised \/ outcomes[r][i].exitline = 99
                    => ~outcomes[r][i].counted
              /\ outcomes[r][i].path = listed[r].entries[NthChosen(r, i)].path
        /\ bpc[r] \in {"loop", "finished"} =>
              Len(outcomes[r]) + Remaining(r) = Cardinality(ChosenIndexes(r))
        /\ bpc[r] = "finished" =>
              /\ Len(outcomes[r]) = Cardinality(ChosenIndexes(r))
              /\ batch_ret[r] = processed_count[r]
              /\ batch_ret[r] >= 0

ReadRaisedStep(r) ==
    /\ Len(outcomes'[r]) = Len(outcomes[r]) + 1
    /\ outcomes'[r][Len(outcomes'[r])].read_raised

ReadErrorSkipsThePipeline ==
    \A r \in Runs : ReadRaisedStep(r) =>
        /\ UNCHANGED <<note, ppc, ret, exitline, calls, trail, entry, files, processed_count>>
        /\ bpc'[r] = "loop"

C17_NoNoteAbortsTheBatch == []NoNoteAbortsTheBatch /\ [][ReadErrorSkipsThePipeline]_vars

C17_Witness ==
    /\ bpc["r1"] = "finished" /\ Len(outcomes["r1"]) = 2
    /\ outcomes["r1"][1].read_raised
    /\ outcomes["r1"][2].exitline = 95

C17_WitnessProcessingRaised ==
    /\ bpc["r1"] = "finished" /\ Len(outcomes["r1"]) = 2
    /\ outcomes["r1"][1].exitline = 99
    /\ outcomes["r1"][2].exitline = 95

\* C18: in one batch run no entry is taken twice and no process_note call
\* makes more than one send_message call, whatever failed.
C18_AtMostOneAttempt ==
    \A r \in Runs : InBatch(r) =>
        /\ \A i, j \in 1..Len(handled[r]) : i # j => handled[r][i].path # handled[r][j].path
        /\ Len(outcomes[r]) <= Len(handled[r])
        /\ Len(handled[r]) <= Len(outcomes[r]) + 1
        /\ \A i \in 1..Len(outcomes[r]) :
              /\ outcomes[r][i].sends <= 1
              /\ outcomes[r][i].path = handled[r][i].path
        /\ bpc[r] = "in_pipeline" => Cardinality(CallsOf(r, "send_message")) <= 1

C18_Witness ==
    /\ bpc["r1"] = "finished" /\ Len(outcomes["r1"]) = 2
    /\ outcomes["r1"][1].exitline = 86 /\ outcomes["r1"][1].sends = 1
    /\ outcomes["r1"][2].exitline = 99 /\ outcomes["r1"][2].sends = 1

\* parse_claude_response has been applied to the reply probe.arg.
Parsed == probe.fn = "parse_claude_response" /\ probe.done
IsJsonMapping(text) == Len(text) = 1 /\ text[1].t = "json" /\ text[1].v.kind = "dict"
Malformed(raw) ==
    LET cleaned == StripFence(Strip(raw))
    IN \/ ~IsJsonMapping(cleaned)
       \/ ~({"content", "metadata"} \subseteq cleaned[1].v.keys)
ReplyMetadata(raw) == StripFence(Strip(raw))[1].v.metadata
TagsOf(metadata) == DictGet(metadata.d, "tags", Absent)
HasTagList(metadata) == metadata.py = "dict" /\ TagsOf(metadata).ty = "list"

\* C19: for a reply that is not JSON, is JSON but no mapping, or is a
\* mapping without the content or the metadata key, parse_claude_response
\* does not raise and returns the reply as it came as content, with the
\* summary 'Failed to parse AI response' and the tags ['#processing-error'].
C19_MalformedReplyFallsBack ==
    Parsed /\ Malformed(probe.arg.raw) =>
        /\ ~probe.out.raised
        /\ probe.out.content = PyStr(probe.arg.raw)
        /\ probe.out.metadata =
              [py |-> "dict",
               d |-> <<[k |-> "summary", v |-> Str("Failed to parse AI response")],
                       [k |-> "tags", v |-> List(<<Tag(1, "processing-error")>>)]>>]

C19_Witness ==
    /\ Parsed /\ Malformed(probe.arg.raw)
    /\ probe.arg.raw = <<FenceJson, JsonLine(JsonDict({"content"}, PyStr(Enhanced1), NoMetadata)), Fence>>

\* C20: after a successful parse every tag of the returned list starts
\* with '#': a tag without the marker got one '#', a marked tag is as it
\* was, the tags keep their order and number, and normalising the returned
\* list again changes nothing.
C20_TagsNormalised ==
    Parsed /\ ~Malformed(probe.arg.raw) /\ ~probe.out.raised
           /\ HasTagList(ReplyMetadata(probe.arg.raw)) =>
        LET given == TagsOf(ReplyMetadata(probe.arg.raw)).items
            got == TagsOf(probe.out.metadata).items
        IN /\ HasTagList(probe.out.metadata)
           /\ Len(got) = Len(given)
           /\ \A j \in 1..Len(given) :
                 /\ got[j].marks >= 1
                 /\ got[j].name = given[j].name
                 /\ given[j].marks >= 1 => got[j] = given[j]
                 /\ given[j].marks = 0 => got[j].marks = 1
           /\ parse_claude_response([raises |-> FALSE,
                                     raw |-> <<Mapping(probe.out.metadata)>>]).metadata
                 = probe.out.metadata

C20_Witness ==
    /\ Parsed /\ ~probe.out.raised
    /\ probe.arg.raw = <<Mapping(WithTags(List(<<Tag(0, "x"), Tag(1, "y"), Tag(2, "x")>>)))>>
    /\ TagsOf(probe.out.metadata).items = <<Tag(1, "x"), Tag(1, "y"), Tag(2, "x")>>

(***************************************************************************)
(* The frontmatter codec.                                                  *)
(***************************************************************************)
ParsedFrontmatter == probe.fn = "parse_frontmatter" /\ probe.done

\* the frontmatter block of a text that has both delimiters
BlockOf(text) == SubSeq(text, 2, ClosingIndex(text) - 1)

NoOpeningDelimiter(text) == ~StartsWithDelim(text)
NoClosingDelimiter(text) == StartsWithDelim(text) /\ ClosingIndex(text) = 0
BlockFailsToParse(text) ==
    /\ StartsWithDelim(text) /\ ClosingIndex(text) # 0
    /\ safe_load(BlockOf(text)).kind \in {"error", "ValueError"}

\* C21: parse_frontmatter never raises, and a text without the opening
\* delimiter line, without a closing delimiter, or whose block fails to parse
\* comes back whole as the body, with an empty mapping as the metadata.
C21_ParseNeverRaises ==
    ParsedFrontmatter =>
        /\ ~probe.out.raised
        /\ (NoOpeningDelimiter(probe.arg) \/ NoClosingDelimiter(probe.arg)
                \/ BlockFailsToParse(probe.arg)) =>
              /\ probe.out.body = probe.arg
              /\ probe.out.isdict /\ probe.out.d = <<>>

\* The three cases hold whenever the loader raises a YAMLError or nothing.
ParseReturnsWholeOnYamlError ==
    /\ ParsedFrontmatter /\ ~probe.out.raised
    /\ (NoOpeningDelimiter(probe.arg) \/ NoClosingDelimiter(probe.arg)
           \/ BlockFailsToParse(probe.arg))
    => /\ probe.out.body = probe.arg
       /\ probe.out.isdict /\ probe.out.d = <<>>

\* d1 == d2 for two Python dicts: the same keys with the same values, in
\* whatever order
SameDict(d1, d2) ==
    /\ DictKeys(d1) = DictKeys(d2)
    /\ \A k \in DictKeys(d1) : DictGet(d1, k, None) = DictGet(d2, k, None)

RoundTripped == probe.fn = "round_trip" /\ probe.done

\* C22: for a mapping M and a body B, parse_frontmatter(generate_frontmatter(M) + B)
\* is (B, M): the body comes back as it was given, so with the fingerprint it
\* had, and the mapping comes back with every key and every value, each value
\* of the type it had.
C22_RoundTrip ==
    RoundTripped =>
        /\ ~probe.out.raised
        /\ probe.out.body = probe.arg.body
        /\ calculate_file_hash(probe.out.body) = calculate_file_hash(probe.arg.body)
        /\ probe.out.isdict
        /\ SameDict(probe.out.d, probe.arg.metadata)

\* a body that itself looks like a frontmatter block, under a mapping whose
\* strings read as a boolean and as a date when written plain
C22_Witness ==
    /\ RoundTripped
    /\ probe.arg.body = <<Delim, TextLine("x"), Delim, TextLine("")>>
    /\ DictKeys(probe.arg.metadata) = {"title", "summary", "tags"}
    /\ probe.arg.metadata[1].k = "title"
    /\ probe.out.d[1].k = "summary"

Generated == probe.fn = "generate_frontmatter" /\ probe.done

\* the keys of the entries of a block, in the order of its lines
EmittedKeys(lines) ==
    LET IsEntry(l) == l.t = "kv"
        es == SelectSeq(lines, IsEntry)
    IN [i \in DOMAIN es |-> es[i].k]

KeySeq(d) == [i \in DOMAIN d |-> d[i].k]

\* the keys of `first` that the mapping has, in the order of `first`, then the
\* other keys of the mapping in the order of their insertion
FirstThenRest(first, d) ==
    LET Present(k) == DictHas(d, k)
        Other(k) == \A i \in DOMAIN first : first[i] # k
    IN SelectSeq(first, Present) \o SelectSeq(KeySeq(d), Other)

\* C23 as stated: the four keys processed_datetime, note_hash, summary, tags
\* come first in that order, each only if present, then all remaining keys in
\* insertion order; no key dropped or duplicated.
C23_FourKeysFirst ==
    Generated =>
        EmittedKeys(probe.out) =
            FirstThenRest(<<"processed_datetime", "note_hash", "summary", "tags">>, probe.arg)

\* C23, amended: the eight keys processed_datetime, note_hash, summary, tags,
\* para_suggestion, confidence_score, processing_version, original_length come
\* first in that order, each only if present, then all remaining keys in
\* insertion order; no key dropped or duplicated.
C23_EightKeysFirst ==
    Generated =>
        /\ EmittedKeys(probe.out) =
              FirstThenRest(<<"processed_datetime", "note_hash", "summary", "tags",
                              "para_suggestion", "confidence_score", "processing_version",
                              "original_length">>, probe.arg)
        /\ Len(EmittedKeys(probe.out)) = Cardinality(DictKeys(probe.arg))
        /\ \A k \in DictKeys(probe.arg) :
              Cardinality({i \in DOMAIN probe.out :
                             probe.out[i].t = "kv" /\ probe.out[i].k = k}) = 1

C23_Witness ==
    /\ Generated
    /\ KeySeq(probe.arg) = <<"original_length", "reviewed", "tags">>
    /\ EmittedKeys(probe.out) = <<"tags", "original_length", "reviewed">>

\* two of the four keys and one other key, given in another order
C23_WitnessFourKeys ==
    /\ Generated
    /\ KeySeq(probe.arg) = <<"title", "summary", "processed_datetime">>
    /\ EmittedKeys(probe.out) = <<"processed_datetime", "summary", "title">>

(***************************************************************************)
(* The written file.                                                       *)
(***************************************************************************)
\* the reply the run got from the LLM before its i-th call
ReplyBefore(r, i) ==
    LET S == {j \in CallsOf(r, "send_message") : j < i}
    IN calls[r][CHOOSE j \in S : \A k \in S : k <= j].response

\* the metadata block of the content handed to update_file by the i-th call
WrittenBlock(r, i) == parse_frontmatter(calls[r][i].content.text)

\* a tag as it is kept: with a '#' before it unless it has one
Hashed(v) ==
    IF v.ty = "list"
    THEN List([j \in DOMAIN v.items |->
                 IF v.items[j].marks = 0 THEN Tag(1, v.items[j].name) ELSE v.items[j]])
    ELSE v

\* the metadata the note holds after the Enhance merge, by the reply: the
\* fixed summary and tags for a reply that is no JSON mapping with content
\* and metadata, the reply's own metadata otherwise
AfterMerge(raw) ==
    IF Malformed(raw)
    THEN <<[k |-> "summary", v |-> Str("Failed to parse AI response")],
           [k |-> "tags", v |-> List(<<Tag(1, "processing-error")>>)]>>
    ELSE ReplyMetadata(raw).d

DefaultOf(k) == IF k = "summary" THEN Str("No summary generated") ELSE List(<<>>)

\* C24: every metadata block handed to update_file has the keys
\* processed_datetime, note_hash, summary and tags; summary and tags hold the
\* values of the reply (tags with their '#') when the reply supplies them,
\* and the defaults 'No summary generated' and [] exactly when the key is
\* absent after the Enhance merge.
C24_RequiredKeysAndDefaults ==
    \A r \in Runs : \A i \in CallsOf(r, "update_file") :
        LET w == WrittenBlock(r, i)
            m == AfterMerge(ReplyBefore(r, i))
        IN /\ ~w.raised /\ w.isdict
           /\ {"processed_datetime", "note_hash", "summary", "tags"} \subseteq DictKeys(w.d)
           /\ \A k \in {"summary", "tags"} :
                 DictGet(w.d, k, Absent) =
                     IF DictHas(m, k) THEN Hashed(DictGet(m, k, Absent)) ELSE DefaultOf(k)

\* a reply that supplies a summary (null) and no tags
C24_Witness ==
    \E i \in CallsOf("r1", "update_file") :
        /\ ~calls["r1"][i].raised
        /\ AfterMerge(ReplyBefore("r1", i)) = <<[k |-> "summary", v |-> None]>>
        /\ DictGet(WrittenBlock("r1", i).d, "summary", Absent) = None
        /\ DictGet(WrittenBlock("r1", i).d, "tags", Absent) = List(<<>>)

\* a reply that supplies both, the tag without its '#'
C24_WitnessBoth ==
    \E i \in CallsOf("r1", "update_file") :
        /\ DictGet(AfterMerge(ReplyBefore("r1", i)), "tags", Absent) = List(<<Tag(0, "x")>>)
        /\ DictGet(WrittenBlock("r1", i).d, "summary", Absent) = Str("s")
        /\ DictGet(WrittenBlock("r1", i).d, "tags", Absent) = List(<<Tag(1, "x")>>)

Saved(r) == Returned(r) /\ exitline[r] = 95

\* '---\n## Original Note\n---\n'
OriginalNoteSeparator == <<Delim, TextLine("## Original Note"), Delim>>

\* the places of a text at which the lines of part stand
Occurrences(part, text) ==
    {a \in 1..(Len(text) - Len(part) + 1) : SubSeq(text, a, a + Len(part) - 1) = part}

\* the body of the file the run was given, without its metadata block
OriginalBody(r) == parse_frontmatter(entry[r].content.text).body

\* C25: after a successful run the written content holds the enhanced
\* content, then the separator '---\n## Original Note\n---\n', then the
\* original body without its old metadata block, in that order.
C25_OriginalNotePreserved ==
    \A r \in Runs : Saved(r) =>
        \A i \in CallsOf(r, "update_file") :
            LET text == calls[r][i].content.text
                enhanced == note[r].enhanced_content.text
            IN \E e \in Occurrences(enhanced, text) :
               \E p \in Occurrences(OriginalNoteSeparator, text) :
               \E o \in Occurrences(OriginalBody(r), text) :
                   /\ e + Len(enhanced) - 1 <= p
                   /\ p + Len(OriginalNoteSeparator) <= o

\* What is written instead: the metadata block, then the enhanced content,
\* and nothing after it.
SavedFileIsBlockAndEnhancedContent ==
    \A r \in Runs : Saved(r) =>
        \A i \in CallsOf(r, "update_file") :
            /\ WrittenBlock(r, i).body = note[r].enhanced_content.text
            /\ Occurrences(OriginalNoteSeparator, calls[r][i].content.text) = {}

\* enhanced + '\n\n---\n## Original Note\n---\n\n' + original
WithOriginalNote(enhanced, original) ==
    enhanced \o <<TextLine("")>> \o OriginalNoteSeparator \o <<TextLine("")>> \o original

\* C26: the note_hash in the written file is the fingerprint of the enhanced
\* content followed by the original-note separator and the original body;
\* it is added when the file is saved: after the Generate-metadata stage and
\* before the save the note's metadata have no note_hash.
C26_HashCoversOriginalNote ==
    \A r \in Runs :
        /\ ppc[r] = "save" => ~DictHas(note[r].metadata, "note_hash")
        /\ \A i \in CallsOf(r, "update_file") :
              DictGet(WrittenBlock(r, i).d, "note_hash", Absent) =
                  calculate_file_hash(WithOriginalNote(note[r].enhanced_content.text,
                                                       OriginalBody(r)))

\* What the code does: Generate-metadata puts the fingerprint of the enhanced
\* content alone into the metadata, and the save writes it as it is.
HashIsOfEnhancedContentAlone ==
    \A r \in Runs :
        /\ ppc[r] = "save" =>
              DictGet(note[r].metadata, "note_hash", Absent) =
                  calculate_file_hash(note[r].enhanced_content.text)
        /\ \A i \in CallsOf(r, "update_file") :
              DictGet(WrittenBlock(r, i).d, "note_hash", Absent) =
                  calculate_file_hash(note[r].enhanced_content.text)

(***************************************************************************)
(* The fields of the Note.                                                 *)
(***************************************************************************)
EnhanceFailed(r) == Returned(r) /\ exitline[r] = 86

\* C27: whenever the Enhance stage returns failure the note's
\* enhanced_content is still the empty string it was constructed with.
C27_FailedEnhanceLeavesNoContent ==
    \A r \in Runs : EnhanceFailed(r) => note[r].enhanced_content = PyStr(EmptyText)

\* the reply is a JSON mapping whose metadata entry is a list
ReplyHasListMetadata(raw) == ~Malformed(raw) /\ ReplyMetadata(raw).py = "list"

\* It is empty after every failure but the one of the merge: the formatter,
\* the adapter or the parser raising.
FailureBeforeTheMergeLeavesNoContent ==
    \A r \in Runs :
        /\ EnhanceFailed(r)
        /\ \A i \in CallsOf(r, "send_message") : ~ReplyHasListMetadata(calls[r][i].response)
        => note[r].enhanced_content = PyStr(EmptyText)

\* the metadata block of the file the run was given
ExistingMetadata(r) == parse_frontmatter(entry[r].content.text).d

\* C28: the text given to the prompt formatter is exactly the body without
\* the frontmatter, and the metadata block of the written file has the four
\* keys of the pipeline and the keys of the reply's metadata, no other: a
\* key of the existing block is in it only as one of these, and then with
\* the reply's value.
C28_PriorMetadataDiscarded ==
    \A r \in Runs :
        /\ \A i \in CallsOf(r, "send_message") :
              calls[r][i].prompt = format_note_prompt(OriginalBody(r))
        /\ \A i \in CallsOf(r, "update_file") :
              LET w == WrittenBlock(r, i)
                  m == AfterMerge(ReplyBefore(r, i))
              IN /\ DictKeys(w.d) =
                       {"processed_datetime", "note_hash", "summary", "tags"} \cup DictKeys(m)
                 /\ \A k \in DictKeys(ExistingMetadata(r)) \cap DictKeys(m) :
                       k \notin {"processed_datetime", "note_hash"} =>
                           DictGet(w.d, k, Absent) = Hashed(DictGet(m, k, Absent))
                 /\ Occurrences(<<KV("title", Str("mine"))>>, calls[r][i].content.text) = {}

\* a note with a title and a directive of its own, the reply returning the
\* directive with another value
C28_Witness ==
    \E i \in CallsOf("r1", "update_file") :
        /\ DictGet(ExistingMetadata("r1"), "title", Absent) = Str("mine")
        /\ DictGet(ExistingMetadata("r1"), "ignoreParse", Absent) = Str("yes")
        /\ ~DictHas(WrittenBlock("r1", i).d, "title")
        /\ DictGet(WrittenBlock("r1", i).d, "ignoreParse", Absent) = Bool(FALSE)
        /\ calls["r1"][i - 1].op = "send_message"
        /\ calls["r1"][i - 1].prompt.user = Body1

\* Filter has returned a verdict (it has not raised)
FilterReturned(r) ==
    FilterRan(r) /\ ~(trail[r] = <<"filter">> /\ exitline[r] = 99)

\* the three fields hold what Filter reads from the raw bytes
FieldsStored(r) ==
    LET p == parse_frontmatter(entry[r].content.text) IN
    /\ note[r].text_content = entry[r].content.text
    /\ note[r].content_without_frontmatter = p.body
    /\ note[r].existing_frontmatter = [isdict |-> p.isdict, d |-> p.d]

\* the three fields are as the constructor left them
FieldsAsConstructed(r) ==
    /\ note[r].text_content = EmptyText
    /\ note[r].content_without_frontmatter = EmptyText
    /\ note[r].existing_frontmatter = [isdict |-> TRUE, d |-> <<>>]

\* C29 as stated: for every verdict Filter returns on a note whose bytes
\* decode, the rejection for a lock-marked name included, text_content,
\* content_without_frontmatter and existing_frontmatter are stored.
C29_FieldsStoredForEveryVerdict ==
    \A r \in Runs : FilterReturned(r) /\ entry[r].content.ok => FieldsStored(r)

\* C29, amended: they are stored for every verdict Filter returns on a note
\* whose bytes decode and whose name is not lock-marked (skip directive and
\* unchanged hash included); on a lock-marked name and on bytes that do not
\* decode the fields stay as constructed.
C29_FieldsStoredAfterDecoding ==
    \A r \in Runs : FilterReturned(r) =>
        IF entry[r].content.ok /\ ~StartsWithLock(entry[r].name)
        THEN FieldsStored(r)
        ELSE FieldsAsConstructed(r)

\* rejected for an unchanged hash, the fields stored
C29_Witness ==
    /\ Returned("r1") /\ exitline["r1"] = 74
    /\ HashMatches("r1")
    /\ FieldsStored("r1")
    /\ note["r1"].content_without_frontmatter # note["r1"].text_content

\* rejected for a lock-marked name, nothing stored
C29_WitnessLockMarked ==
    /\ Returned("r1") /\ exitline["r1"] = 74
    /\ StartsWithLock(entry["r1"].name)
    /\ entry["r1"].content = Encode(Body2)
    /\ FieldsAsConstructed("r1")

Stages == {"filter", "validate", "lock", "enhance", "metadata", "save"}

\* process_note is at one of its stages
InStage(r) == ppc[r] \in Stages

\* a step of a stage of run r leaves the raw bytes alone, writes the text
\* fields only if the stage is Filter and the enhanced content only if the
\* stage is Enhance
FieldsWrittenByTheirStage(r) ==
    InStage(r) =>
        /\ note'[r].content = note[r].content
        /\ (note'[r].text_content # note[r].text_content
               \/ note'[r].content_without_frontmatter # note[r].content_without_frontmatter)
             => ppc[r] = "filter"
        /\ note'[r].enhanced_content # note[r].enhanced_content => ppc[r] = "enhance"

\* no stage runs twice in one call of process_note
EachStageAtMostOnce(r) ==
    \A i, j \in DOMAIN trail[r] : i # j => trail[r][i] # trail[r][j]

\* C30: in every stage of process_note the Note's content (the raw bytes) is
\* unchanged; text_content and content_without_frontmatter are written only
\* by Filter and enhanced_content only by Enhance, each at most once since
\* no stage runs twice in a call.
C30_FieldsWrittenOnceByTheirStage ==
    /\ [](\A r \in Runs : EachStageAtMostOnce(r))
    /\ [][\A r \in Runs : FieldsWrittenByTheirStage(r)]_vars

\* a run through all stages: the text fields and the enhanced content
\* written, the raw bytes as given
C30_Witness ==
    /\ Returned("r1") /\ exitline["r1"] = 95
    /\ trail["r1"] = <<"filter", "validate", "lock", "enhance", "metadata", "save">>
    /\ note["r1"].content = entry["r1"].content
    /\ note["r1"].text_content # note["r1"].content_without_frontmatter
    /\ note["r1"].enhanced_content = PyStr(Enhanced2)

(***************************************************************************)
(* The Note and the file in storage.                                       *)
(***************************************************************************)
\* the Note was built for a file that storage held, with the file's bytes
GivenExistingFile(r) ==
    /\ Exists(entry[r].files, entry[r].file_path)
    /\ entry[r].files[entry[r].file_path].content = entry[r].content

InProcessNote(r) == InStage(r) \/ Returned(r)

\* the rename of the Lock stage has been made and did not raise
LockRenamed(r) == \E i \in CallsOf(r, "rename_file") : ~calls[r][i].raised

\* file_path and name agree and name the place storage holds the note's
\* bytes at
DenotesTheFile(r) ==
    /\ NameOf(note[r].file_path) = note[r].name
    /\ Exists(files, note[r].file_path)
    /\ files[note[r].file_path].content = entry[r].content

\* the lock-marked path after a rename that succeeded, the original path
\* before it and after one that raised
PathFollowsTheLock(r) ==
    note[r].file_path =
        IF LockRenamed(r) THEN LockedPath(entry[r].file_path) ELSE entry[r].file_path

\* C31 as stated: at every point of process_note, the return after Persist
\* included, the Note's path and name denote the file's place in storage.
C31_PathDenotesTheFileAlways ==
    \A r \in Runs : InProcessNote(r) /\ GivenExistingFile(r) =>
        DenotesTheFile(r) /\ PathFollowsTheLock(r)

\* C31, amended: so it is at every point up to the write of Persist and
\* after a Persist that raised; once Persist has written and removed the
\* lock-marked file, the Note still carries the lock-marked path and name
\* while the file is at the final name.
C31_PathDenotesTheFileUntilSaved ==
    \A r \in Runs : InProcessNote(r) /\ GivenExistingFile(r) =>
        /\ PathFollowsTheLock(r)
        /\ NameOf(note[r].file_path) = note[r].name
        /\ IF Saved(r)
           THEN /\ note[r].file_path = LockedPath(entry[r].file_path)
                /\ ~Exists(files, note[r].file_path)
                /\ Exists(files, entry[r].file_path)
           ELSE DenotesTheFile(r)

\* after the rename, before the reply: the Note names the lock-marked file
C31_Witness ==
    /\ ppc["r1"] = "enhance"
    /\ GivenExistingFile("r1")
    /\ LockRenamed("r1")
    /\ note["r1"].name = <<"_", "a">>
    /\ DenotesTheFile("r1")

\* the rename raised: the Note as it was given
C31_WitnessRenameRaised ==
    /\ Returned("r1") /\ exitline["r1"] = 99
    /\ GivenExistingFile("r1")
    /\ \E i \in CallsOf("r1", "rename_file") : calls["r1"][i].raised
    /\ note["r1"].file_path = entry["r1"].file_path
    /\ DenotesTheFile("r1")

(***************************************************************************)
(* Locked notes.                                                           *)
(***************************************************************************)
\* a lock-marked file of storage that no running call has locked for itself
Stranded(p) ==
    /\ Exists(files, p)
    /\ StartsWithLock(NameOf(p))
    /\ \A r \in Runs : ~(InStage(r) /\ note[r].file_path = p)

\* C32: a note left lock-marked by a call that ended in LLM_FAILED or ERROR
\* after Lock is touched by no later run: no step reads it into a Note of a
\* batch, renames it, replaces it or writes it, so it stays under its
\* lock-marked name with the content it had.
C32_LockedNotesStay ==
    /\ [](\A r \in Runs : InBatch(r) /\ InStage(r) => ~StartsWithLock(entry[r].name))
    /\ [][\A p \in DOMAIN files : Stranded(p) => Exists(files', p) /\ files'[p] = files[p]]_vars

\* A stranded file changes in one way only: the Lock of a note of the same
\* name without the marker replaces it.
StrandedLostOnlyToALock ==
    [][\A p \in DOMAIN files :
          Stranded(p) /\ ~(Exists(files', p) /\ files'[p] = files[p]) =>
              \E r \in Runs : /\ ppc[r] = "lock"
                               /\ LockedPath(note[r].file_path) = p
                               /\ files'[p].content = note[r].content]_vars

\* C34: the Lock of a note destroys no other file: a lock-marked file left
\* by an earlier failed run is in storage after the step, with the content
\* it had.
C34_LockDestroysNoFile ==
    [][\A r \in Runs : ppc[r] = "lock" =>
          \A p \in DOMAIN files :
              Stranded(p) => Exists(files', p) /\ files'[p].content = files[p].content]_vars

\* Every file under another name than the lock-marked name of the note is
\* left alone by the Lock.
LockLeavesOtherNames ==
    [][\A r \in Runs : ppc[r] = "lock" =>
          \A p \in DOMAIN files :
              p \notin {note[r].file_path, LockedPath(note[r].file_path)} =>
                  Exists(files', p) /\ files'[p] = files[p]]_vars

(***************************************************************************)
(* Repeated runs.                                                          *)
(***************************************************************************)
\* the content is a file as Persist writes it: its note_hash is the
\* fingerprint of its body
IsProcessed(content) ==
    LET p == parse_frontmatter(content.text) IN
    /\ content.ok /\ ~p.raised /\ p.isdict
    /\ DictGet(p.d, "note_hash", Absent) = calculate_file_hash(p.body)

AllRunsDone == ncalls = MaxCalls /\ \A r \in Runs : Idle(r)

\* C33: with two notes that are neither lock-marked, skip-flagged nor
\* oversized, max_notes_per_run of them taken per run and nothing failing,
\* MaxCalls batch runs have enhanced and saved every note when
\* MaxCalls * max_notes_per_run is at least two: no note is kept out of
\* every run by the notes already processed.
C33_NoStarvation ==
    AllRunsDone /\ MaxCalls * config.max_notes_per_run >= Cardinality(StarvePaths) =>
        \A p \in StarvePaths : Exists(files, p) /\ IsProcessed(files[p].content)

\* What happens: the run after a save takes the saved note again, newest in
\* the listing, filters it for its unchanged hash and ends, the storage as
\* it was.
SavedNoteTakesTheNextRun ==
    \A r \in Runs :
        bpc[r] = "finished" /\ Len(handled[r]) > 0
            /\ IsProcessed(listed[r].storage[handled[r][1].path].content) =>
                /\ files = listed[r].storage
                /\ outcomes[r][1].exitline = 74

(***************************************************************************)
(* Concurrent runs.                                                        *)
(***************************************************************************)
\* the run's current or last call of process_note was given the file at p
\* and its Lock rename succeeded
PastLock(r, p) == InProcessNote(r) /\ entry[r].file_path = p /\ LockRenamed(r)
SentBy(r, p) == PastLock(r, p) /\ CallsOf(r, "send_message") # {}
WrittenBy(r, p) ==
    PastLock(r, p) /\ \E i \in CallsOf(r, "update_file") : ~calls[r][i].raised

\* the run holds the lock on p: past Lock and not yet out of process_note
Holds(r, p) == PastLock(r, p) /\ InStage(r)

\* C35: for any note file at most one of two concurrent runs gets past
\* Lock, so no note is sent to the LLM by both runs and no note's final
\* content is written by both.
C35_OneRunPastLock ==
    \A r1, r2 \in Runs : r1 # r2 =>
        \A p \in RecoveryPaths :
            /\ ~(PastLock(r1, p) /\ PastLock(r2, p))
            /\ ~(SentBy(r1, p) /\ SentBy(r2, p))
            /\ ~(WrittenBy(r1, p) /\ WrittenBy(r2, p))

\* C35 as it holds: at no time are two runs both between Lock and the return
\* of process_note for the same note file.
C35_OneRunHoldsTheLock ==
    \A r1, r2 \in Runs : r1 # r2 =>
        \A p \in RecoveryPaths : ~(Holds(r1, p) /\ Holds(r2, p))

\* one run holds the lock on a file the other run has read and is about to
\* lock
C35_Witness ==
    \E r1, r2 \in Runs :
        /\ r1 # r2
        /\ \E p \in RecoveryPaths :
              /\ Holds(r1, p)
              /\ ppc[r2] = "lock" /\ entry[r2].file_path = p

(***************************************************************************)
(* Malformed replies in the pipeline.                                      *)
(***************************************************************************)
\* the reply is not a JSON mapping with content and a metadata mapping
NotWellFormed(raw) == Malformed(raw) \/ ReplyMetadata(raw).py # "dict"

EndsWith(text, part) ==
    Len(part) <= Len(text) /\ SubSeq(text, Len(text) - Len(part) + 1, Len(text)) = part

\* the i-th call of update_file writes the fallback for the reply raw
WritesFallback(r, i, raw) ==
    LET block == WrittenBlock(r, i).d IN
    /\ EndsWith(calls[r][i].content.text, raw)
    /\ DictGet(block, "summary", Absent) = Str("Failed to parse AI response")
    /\ DictGet(block, "tags", Absent) = List(<<Tag(1, "processing-error")>>)

\* what a reply the adapter returned leads to when it is in the set bad:
\* Enhance does not fail, Persist writes the fallback, and process_note
\* returns true unless a storage call raised
FallsBack(r, bad) ==
    \A i \in CallsOf(r, "send_message") :
        ~calls[r][i].raised /\ bad[calls[r][i].response] =>
            /\ exitline[r] # 86
            /\ \A j \in CallsOf(r, "update_file") : WritesFallback(r, j, calls[r][i].response)
            /\ Returned(r) /\ ~SomethingRaised(r) => exitline[r] = 95

ReplySet == {b.raw : b \in LLMBehaviours}

\* formatting the prompt, send_message or parse_claude_response raised
FormatSendOrParseRaised(r) ==
    \/ ~prompts_fine
    \/ \E i \in CallsOf(r, "send_message") :
          \/ calls[r][i].raised
          \/ parse_claude_response([raw |-> calls[r][i].response]).raised

\* C36: a reply that is not a well-formed content/metadata mapping is no
\* Enhance failure: the pipeline persists the raw reply under the summary
\* 'Failed to parse AI response' and the tags ['#processing-error'] and
\* reports success; LLM_FAILED is reported only when formatting, sending or
\* parsing raised.
C36_MalformedReplyIsNoFailure ==
    \A r \in Runs : InProcessNote(r) =>
        /\ FallsBack(r, [raw \in ReplySet |-> NotWellFormed(raw)])
        /\ EnhanceFailed(r) => FormatSendOrParseRaised(r)

\* It holds of the replies parse_claude_response checks for: no JSON, no
\* mapping, content or metadata missing; and LLM_FAILED has one more cause,
\* the merge of a metadata that is a list.
CheckedRepliesFallBack ==
    \A r \in Runs : InProcessNote(r) =>
        /\ FallsBack(r, [raw \in ReplySet |-> Malformed(raw)])
        /\ EnhanceFailed(r) =>
              \/ FormatSendOrParseRaised(r)
              \/ \E i \in CallsOf(r, "send_message") :
                    ReplyHasListMetadata(calls[r][i].response)

(***************************************************************************)
(* The type of the parsed metadata.                                        *)
(***************************************************************************)
\* _filter on a note of the inbox that holds the text
FilterOn(text) == _filter(NewNote(PathOf(Inbox, <<"a">>), <<"a">>, Encode(text)))

\* C37: whatever parse_frontmatter returns as metadata is a mapping, also
\* for a block that parses to a scalar or a list, and Filter reads the skip
\* directive and note_hash of a note with that text without raising.
C37_MetadataIsAMapping ==
    ParsedFrontmatter /\ ~probe.out.raised =>
        /\ probe.out.isdict
        /\ ~FilterOn(probe.arg).raised

\* The metadata is a mapping unless the block loads as a scalar or a list.
MetadataIsWhatTheBlockLoadsAs ==
    ParsedFrontmatter /\ ~probe.out.raised =>
        (probe.out.isdict <=>
            ~(/\ StartsWithDelim(probe.arg) /\ ClosingIndex(probe.arg) # 0
              /\ safe_load(BlockOf(probe.arg)).kind = "scalar"))

(***************************************************************************)
(* The retries of send_message.                                            *)
(***************************************************************************)
SendDone == probe.pc \in {"returned", "raised"}
LastAttempt == probe.attempts[Len(probe.attempts)]

\* the API calls made so far are within the budget; every call but the
\* last met a rate limit; a returned call ends with a response and gives
\* its text; a call that raised raises what its last API call raised, a
\* rate-limit error only after max_retries + 1 calls, and any other
\* exception at once
SendWithinBudget ==
    /\ Len(probe.attempts) <= (IF probe.max_retries < 0 THEN 0 ELSE probe.max_retries + 1)
    /\ \A i \in 1..(Len(probe.attempts) - 1) : probe.attempts[i] = "RateLimitError"
    /\ Len(probe.slept) <= Len(probe.attempts)
    /\ probe.pc = "returned" =>
          /\ probe.attempts # <<>> /\ LastAttempt \in {"ok", "empty"}
          /\ probe.out = ExtractText(LastAttempt)
    /\ probe.pc = "raised" /\ probe.attempts # <<>> =>
          /\ probe.out = LastAttempt
          /\ probe.out \in {"RateLimitError", "APIError", "Exception"}
          /\ probe.out = "RateLimitError" => Len(probe.attempts) = probe.max_retries + 1
    /\ probe.pc = "raised" /\ probe.attempts = <<>> => probe.max_retries < 0
    /\ probe.attempts # <<>> =>
          /\ LastAttempt \in {"ok", "empty"} => probe.pc = "returned"
          /\ LastAttempt \in {"APIError", "Exception"} => probe.pc = "raised"
          /\ LastAttempt = "RateLimitError" /\ Len(probe.attempts) <= probe.max_retries =>
                probe.pc \in {"sleep", "try"}

\* C38: send_message ends, returning the response text or raising, after
\* at most max_retries + 1 API calls: a rate-limit error is retried until
\* the budget is used up and is then raised, any other exception is raised
\* after the one attempt that met it and is never retried.
C38_SendTerminatesWithinBudget == []SendWithinBudget /\ <>SendDone

\* the default budget used up by rate limits: four API calls, three
\* sleeps, the rate-limit error raised
C38_Witness ==
    /\ probe.fn = "send_message" /\ probe.max_retries = DEFAULT_MAX_RETRIES
    /\ probe.pc = "raised" /\ probe.out = "RateLimitError"
    /\ Len(probe.attempts) = DEFAULT_MAX_RETRIES + 1
    /\ probe.slept = <<2, 4, 8>>

(***************************************************************************)
(* The order of the providers.                                             *)
(***************************************************************************)
FactoryCall == probe.fn = "create_llm_client_with_fallback"
FactoryDone == FactoryCall /\ probe.pc \in {"returned", "raised"}

\* the primary provider, the fallback provider if it is set and another
\* one, then the registered providers that are neither, in registry order
ProviderOrder ==
    <<primary_provider>>
    \o (IF Truthy(fallback_provider) /\ fallback_provider # primary_provider
        THEN <<fallback_provider>> ELSE <<>>)
    \o SelectSeq(CLIENT_REGISTRY,
                 LAMBDA p : p # primary_provider /\ p # fallback_provider)

Succeeds(provider) == provider \in Registered /\ provider \in probe.works

\* C39: the providers are attempted in the order primary, fallback (only if
\* set and different from the primary), every remaining registered provider;
\* the client of the first that can be created is returned and none is
\* attempted after it; RuntimeError is raised only when every attempt
\* failed.
C39_FirstProviderThatWorks ==
    FactoryCall =>
        /\ IsPrefix(probe.attempts, ProviderOrder)
        /\ \A i \in 1..(Len(probe.attempts) - 1) : ~Succeeds(probe.attempts[i])
        /\ probe.pc = "returned" =>
              /\ probe.attempts # <<>>
              /\ probe.out = probe.attempts[Len(probe.attempts)]
              /\ Succeeds(probe.out)
        /\ probe.pc = "raised" =>
              /\ probe.out = "RuntimeError"
              /\ probe.attempts = ProviderOrder
              /\ \A i \in DOMAIN probe.attempts : ~Succeeds(probe.attempts[i])
        /\ probe.pc \notin {"returned", "raised"} =>
              \A i \in DOMAIN probe.attempts : ~Succeeds(probe.attempts[i])

\* an unregistered primary and the fallback both fail and the one remaining
\* provider gives the client
C39_Witness ==
    /\ FactoryDone /\ probe.pc = "returned"
    /\ probe.attempts = <<"openai", "litellm", "claude_direct">>
    /\ probe.out = "claude_direct"

====
